---- MODULE Spec2Model ----
(***************************************************************************)
(* Model of the per-note conversation contexts of the plugin:              *)
(*   - NoteContextManager (src/src/managers/note-context-manager.ts)       *)
(*   - the run / approve / cancel / note-switch handlers of ClaudeCodeView *)
(*     (src/src/ui/view.ts)                                                *)
(* The handlers are asynchronous: each has one suspension point, the       *)
(* await of runner.run.  The part before the await and the part after it   *)
(* are separate actions; the onLine callbacks of the run happen between.   *)
(***************************************************************************)
EXTENDS Integers, Sequences, FiniteSets, TLC

\* ------------------------------------------------------------------ bounds
MaxRuns == 2          \* runner.run calls made in one behaviour
MaxLines == 2         \* lines one child process emits
MaxSessions == 1      \* standalone sessions created in one behaviour
MaxOps == 5           \* NoteContextManager calls in one behaviour of SpecMgr
MaxExchanges == 12    \* saveConversationHistory calls on one session directory
MaxLinks == 3         \* linked notes of one session
MaxEvents == 3        \* decoded lines handed to one adapter between two resets
MaxResets == 1        \* reset() calls on one adapter
MaxOutput == 3        \* lines handed to one parseOutput call

\* --------------------------------------------------------------- constants
HistoryCap == 20      \* messages kept in conversation_history.json

\* ------------------------------------------------------------ value spaces
Notes == {"a.md"}
SessionDirs == <<"s1", "s2", "s3">>

\* nullable values: None is null / undefined, Some(x) a present value
None == <<>>
Some(x) == <<x>>
IsSome(o) == Len(o) > 0

\* `standalone:${sessionDir}`
StandaloneKey(d) ==
    CASE d = "s1" -> "standalone:s1"
      [] d = "s2" -> "standalone:s2"
      [] d = "s3" -> "standalone:s3"

StandaloneKeys == {StandaloneKey(SessionDirs[i]) : i \in 1..MaxSessions}
AllKeys == {""} \cup Notes \cup StandaloneKeys

\* crypto.createHash('md5').update(notePath).digest('hex'), first 8 digits
md5(k) ==
    CASE k = "" -> "d41d8cd9"
      [] k = "a.md" -> "b00a1cca"
      [] k = "b.md" -> "90a50305"
      [] k = "standalone:s1" -> "cf01e7cd"
      [] k = "standalone:s2" -> "002b2b39"
      [] k = "standalone:s3" -> "d91961f3"

Hashes == {md5(k) : k \in AllKeys}

VARIABLES
    contexts,                \* NoteContextManager.contexts: key -> NoteContext
    disk,                    \* <vault>/<dataDir>/<hash>/context.json
    runs,                    \* the runner.run calls made so far
    currentNotePath,         \* ClaudeCodeView.currentNotePath
    activeStandaloneSession, \* ClaudeCodeView.activeStandaloneSession
    activeFile,              \* app.workspace.getActiveFile()
    permissionVisible,       \* permissionApprovalSection is shown
    cancelVisible,           \* cancelButton is shown
    notices,                 \* the Notices raised by the last step
    sessionsCreated,         \* SessionManager.createStandaloneSession calls
    fresh,                   \* contexts of a second, fresh NoteContextManager
    oplog,                   \* the last two NoteContextManager calls and
                             \* the number of calls (SpecMgr)
    sessionFiles,            \* <vault>/<configDir>/claude-code-sessions/<dir>:
                             \* session_meta.json, conversation_history.json
    exchanges,               \* saveConversationHistory calls made per directory
    backendName,             \* CLIBackend.name of the adapter in use
    hasSeenInit,             \* OpenCodeBackend.hasSeenInit
    rawLines,                \* the decoded lines handed to the adapter so far
    events,                  \* what parseEvent returned for each of them
    sessionIds,              \* what extractSessionId returned for each of them
    resets,                  \* reset() calls made on the adapter
    settings,                \* NoteContextManager.settings
    runnerSettings,          \* the settings the runner of each context holds
    spawner,                 \* one ProcessSpawner.spawn call: what it is given and
                             \* the environment of the child
    faults,                  \* file system faults: whether writes fail, and the
                             \* handlers an error has propagated out of
    timeoutSeconds,          \* plugin.settings.timeoutSeconds
    timers,                  \* the timeout timer of each runner.run call
    selection,               \* editor.getSelection() with 'selected text
                             \* only' checked, None without a selection
    edits,                   \* the last call applyChangesToEditor made on an
                             \* editor
    tooling,                 \* ClaudeCodeView.toolStartTimes and lastToolKey, and
                             \* the last completion matched with a start
    denied,                  \* the permission requests the user has denied:
                             \* the context key and the runs at that time
    outputLines,             \* the argument of ResponseParser.parseOutput
    parsed                   \* what parseOutput returned for it

vars == <<contexts, disk, runs, currentNotePath, activeStandaloneSession,
          activeFile, permissionVisible, cancelVisible,
          notices, sessionsCreated, fresh, oplog,
          sessionFiles, exchanges,
          backendName, hasSeenInit, rawLines, events, sessionIds, resets,
          settings, runnerSettings, spawner, faults,
          timeoutSeconds, timers, selection, edits, tooling,
          denied, outputLines, parsed>>

parserVars == <<outputLines, parsed>>

permVars == <<denied>>

toolVars == <<tooling>>

editorVars == <<selection, edits>>

timerVars == <<timeoutSeconds, timers>>

spawnVars == <<spawner>>

faultVars == <<faults>>

sessVars == <<sessionFiles, exchanges>>

backendVars == <<backendName, hasSeenInit, rawLines, events, sessionIds, resets>>

settingsVars == <<settings, runnerSettings>>

viewVars == <<runs, currentNotePath, activeStandaloneSession, activeFile,
              permissionVisible, cancelVisible, notices,
              sessionsCreated>>

\* parseOutput has not been called
NoParse == <<>>

\* ----------------------------------------------------------------- notices
Notice(id) == [id |-> id, arg |-> ""]
FailureNotice(error) == [id |-> "failed", arg |-> error]

\* ------------------------------------------------------ NoteContextManager
createNewContext ==
    [history |-> <<>>,
     sessionId |-> None,
     currentResponse |-> None,
     currentRequest |-> None,
     outputLines |-> <<>>,
     agentSteps |-> <<>>,
     isRunning |-> FALSE,
     pendingPreviewContent |-> None,
     originalPreviewContent |-> None]

NoContexts == [k \in AllKeys |-> None]

\* the file system works and no handler has ended with an error
NoFaults == [writeFails |-> FALSE, uncaught |-> {}]

\* toolStartTimes = new Map(), lastToolKey = null
NoTooling == [toolStartTimes |-> {}, lastToolKey |-> <<>>, matched |-> <<>>]

\* no applyChangesToEditor call was made yet
NoEdit == ""

\* DEFAULT_SETTINGS.timeoutSeconds
DefaultTimeout == 300
\* the timer of a run: idle until the child is spawned, then off (timeout 0)
\* or armed; due once the time has passed, fired once its callback has run
NoTimer == [state |-> "idle", seconds |-> 0, ctx |-> ""]
NoTimers == [r \in 1..MaxRuns |-> NoTimer]

\* ClaudeCodeSettings values: the one the manager is constructed with and the
\* ones a later change of the plugin settings hands to updateSettings
DefaultSettings == "settings0"

SettingsValues == {"settings0", "settings1", "settings2"}

\* no context, no runner
NoRunners == [k \in AllKeys |-> None]

\* the map after getContext(notePath): the context is created on first access
getContext(ctxs, notePath) ==
    IF IsSome(ctxs[notePath]) THEN ctxs
    ELSE [ctxs EXCEPT ![notePath] = Some(createNewContext)]

Ctx(ctxs, k) == ctxs[k][1]

hasContext(ctxs, k) == IsSome(ctxs[k])

getRunningNotePaths(ctxs) ==
    {k \in AllKeys : IsSome(ctxs[k]) /\ Ctx(ctxs, k).isRunning}

getRunningCount(ctxs) == Cardinality(getRunningNotePaths(ctxs))

\* A history item holds a reference to the array that was context.outputLines
\* when the item was pushed.  aliased = TRUE while context.outputLines still is
\* that array (the item then shows the context's lines); when the context gets
\* a new array the item keeps the contents the old array had.
FreezeItem(item, lines) ==
    IF item.aliased THEN [item EXCEPT !.aliased = FALSE, !.lines = lines]
    ELSE item

FreezeHistory(c) ==
    [i \in 1..Len(c.history) |-> FreezeItem(c.history[i], c.outputLines)]

\* context.outputLines = []
ResetOutputLines(c) ==
    [c EXCEPT !.history = FreezeHistory(c), !.outputLines = <<>>]

ItemLines(c, i) ==
    IF c.history[i].aliased THEN c.outputLines ELSE c.history[i].lines

NoDisk == [h \in Hashes |-> None]

\* JSON.stringify(dataToSave): the durable fields of the context
SessionData(c, notePath) ==
    [notePath |-> notePath,
     sessionId |-> c.sessionId,
     history |-> [i \in 1..Len(c.history) |->
                    [c.history[i] EXCEPT !.aliased = FALSE,
                                         !.lines = ItemLines(c, i)]],
     outputLines |-> c.outputLines,
     agentSteps |-> c.agentSteps,
     pendingPreviewContent |-> c.pendingPreviewContent,
     originalPreviewContent |-> c.originalPreviewContent]

saveContext(ctxs, dsk, notePath) ==
    IF ~IsSome(ctxs[notePath]) THEN dsk
    ELSE [dsk EXCEPT ![md5(notePath)] =
              Some(SessionData(Ctx(ctxs, notePath), notePath))]

RECURSIVE saveAllFrom(_, _, _)
saveAllFrom(ctxs, dsk, keys) ==
    IF keys = {} THEN dsk
    ELSE LET k == CHOOSE x \in keys : TRUE
         IN saveAllFrom(ctxs, saveContext(ctxs, dsk, k), keys \ {k})

saveAllContexts(ctxs, dsk) ==
    saveAllFrom(ctxs, dsk, {k \in AllKeys : IsSome(ctxs[k])})

\* a reconstruction that takes a context saved with output for a running one
ReconstructContextBusy(data) ==
    [history |-> data.history,
     sessionId |-> data.sessionId,
     currentResponse |-> None,
     currentRequest |-> None,
     outputLines |-> data.outputLines,
     agentSteps |-> data.agentSteps,
     isRunning |-> data.outputLines /= <<>>,
     pendingPreviewContent |-> data.pendingPreviewContent,
     originalPreviewContent |-> data.originalPreviewContent]

\* the context loadContexts reconstructs from one context.json
ReconstructContext(data) ==
    [history |-> data.history,
     sessionId |-> data.sessionId,
     currentResponse |-> None,
     currentRequest |-> None,
     outputLines |-> data.outputLines,
     agentSteps |-> data.agentSteps,
     isRunning |-> FALSE,
     pendingPreviewContent |-> data.pendingPreviewContent,
     originalPreviewContent |-> data.originalPreviewContent]

\* if (data.notePath): the empty string is falsy
Truthy(s) == s /= ""

RECURSIVE loadFrom(_, _, _)
loadFrom(ctxs, dsk, noteDirs) ==
    IF noteDirs = {} THEN ctxs
    ELSE LET h == CHOOSE x \in noteDirs : TRUE
             next == IF IsSome(dsk[h]) /\ Truthy(dsk[h][1].notePath)
                     THEN [ctxs EXCEPT ![dsk[h][1].notePath] =
                               Some(ReconstructContext(dsk[h][1]))]
                     ELSE ctxs
         IN loadFrom(next, dsk, noteDirs \ {h})

loadContexts(ctxs, dsk) == loadFrom(ctxs, dsk, Hashes)

\* a clearHistory that puts a new context in the place of the old one
clearHistoryNewContext(ctxs, notePath) ==
    [ctxs EXCEPT ![notePath] = Some(createNewContext)]

\* a clearHistory that forgets the agent steps
clearHistoryKeepsSteps(ctxs, notePath) ==
    IF ~IsSome(ctxs[notePath]) THEN ctxs
    ELSE [ctxs EXCEPT ![notePath] =
              Some([Ctx(ctxs, notePath) EXCEPT !.history = <<>>,
                                               !.outputLines = <<>>])]

clearHistory(ctxs, notePath) ==
    IF ~IsSome(ctxs[notePath]) THEN ctxs
    ELSE [ctxs EXCEPT ![notePath] =
              Some([Ctx(ctxs, notePath) EXCEPT !.history = <<>>,
                                               !.outputLines = <<>>,
                                               !.agentSteps = <<>>])]

\* ---------------------------------------------------------- SessionManager
\* The directories under <vault>/<configDir>/claude-code-sessions: the one of
\* a note is named by the md5 of its path, the same directory saveContext
\* writes the note's context.json to; the one of a standalone session by a
\* random hash.  lastUsed, createdAt, messageCount and backend of the metadata
\* are left out, no operation reads them to decide anything.

\* note paths that get linked to sessions and renamed
LinkPaths == {"a.md", "b.md"}

\* path.basename(p, '.md')
basename(p) ==
    CASE p = "a.md" -> "a"
      [] p = "b.md" -> "b"

StandaloneDirs == {SessionDirs[i] : i \in 1..MaxSessions}
NoteDirs == {md5(n) : n \in Notes}
SessDirNames == NoteDirs \cup StandaloneDirs
\* the directories getSessionInfo makes for a note under its other names
AllSessDirs == SessDirNames \cup {md5(p) : p \in LinkPaths}

\* type BackendType = 'claude' | 'opencode'
BackendType == {"claude", "opencode"}
\* session_id_<backend>.txt of a directory, None while the file is missing
NoSessionIds == [b \in BackendType |-> None]

NoDir == [exists |-> FALSE, meta |-> None, history |-> None,
          ids |-> NoSessionIds]
NoSessionFiles == [d \in AllSessDirs |-> NoDir]
NoExchanges == [saved |-> [d \in SessDirNames |-> 0], deleted |-> {}]

\* fs.existsSync(dir): the directory holds session files or a context.json
DirExists(files, dsk, dir) ==
    files[dir].exists \/ (dir \in Hashes /\ IsSome(dsk[dir]))

LinkedNote(p, isPrimary) ==
    [path |-> p, title |-> basename(p), isPrimary |-> isPrimary]

\* getSessionInfo(notePath, ...): fs.mkdirSync(sessionDir, { recursive: true })
getSessionInfo(files, notePath) ==
    [files EXCEPT ![md5(notePath)].exists = TRUE]

\* the session ids a backend hands out, and texts that are no id
SessionIdTexts == {"sid-1", "sid-2", "sid-1\n", " "}

\* String.prototype.trim
trim(text) ==
    CASE text = "sid-1\n" -> "sid-1"
      [] text = " " -> ""
      [] OTHER -> text

\* what getSessionInfo(notePath, vaultPath, configDir, backend) returns
SessionInfo(files, notePath, backend) ==
    LET sessionHash == md5(notePath)
        sessionIdFile == files[sessionHash].ids[backend]
        sessionId == IF IsSome(sessionIdFile) THEN Some(trim(sessionIdFile[1]))
                     ELSE None
    IN [sessionDir |-> sessionHash,
        sessionId |-> sessionId,
        isNewSession |-> ~(IsSome(sessionId) /\ sessionId[1] /= "")]

\* a session id kept in one file whatever the backend
saveSessionIdShared(files, sessionDir, sessionId, backend) ==
    IF ~files[sessionDir].exists THEN files
    ELSE [files EXCEPT ![sessionDir].ids = [b \in BackendType |-> Some(sessionId)]]

\* saveSessionId(sessionDir, sessionId, backend): writing into a missing
\* directory throws
saveSessionId(files, sessionDir, sessionId, backend) ==
    IF ~files[sessionDir].exists THEN files
    ELSE [files EXCEPT ![sessionDir].ids[backend] = Some(sessionId)]

createStandaloneSession(files, dir) ==
    [files EXCEPT ![dir] =
        [exists |-> TRUE,
         meta |-> Some([sessionName |-> "Session",
                        isStandalone |-> TRUE,
                        linkedNotes |-> <<>>,
                        notePath |-> None,
                        noteTitle |-> None]),
         history |-> None,
         ids |-> NoSessionIds]]

\* saveSessionMetadata(sessionDir, notePath, backend); notePath is None for a
\* standalone session.  Existing metadata only gets lastUsed and messageCount
\* updated; writing into a missing directory throws and is logged.
saveSessionMetadata(files, dir, notePath) ==
    IF IsSome(files[dir].meta) \/ ~files[dir].exists THEN files
    ELSE [files EXCEPT ![dir].meta =
            Some([sessionName |-> IF IsSome(notePath) THEN basename(notePath[1])
                                  ELSE "Session",
                  isStandalone |-> ~IsSome(notePath),
                  linkedNotes |-> IF IsSome(notePath)
                                  THEN <<LinkedNote(notePath[1], TRUE)>>
                                  ELSE <<>>,
                  notePath |-> notePath,
                  noteTitle |-> IF IsSome(notePath)
                                THEN Some(basename(notePath[1])) ELSE None])]

\* linkedNotes.findIndex(n => n.path === notePath): 0 when there is none
findIndex(notes, p) ==
    IF \E i \in 1..Len(notes) : notes[i].path = p
    THEN CHOOSE i \in 1..Len(notes) :
             /\ notes[i].path = p
             /\ \A j \in 1..(i - 1) : notes[j].path /= p
    ELSE 0

\* linkedNotes.forEach(n => n.isPrimary = false)
ResetPrimary(notes) ==
    [i \in 1..Len(notes) |-> [notes[i] EXCEPT !.isPrimary = FALSE]]

\* linkedNotes.find(n => n.isPrimary) || linkedNotes[0], None when empty
PrimaryOrFirst(notes) ==
    IF \E i \in 1..Len(notes) : notes[i].isPrimary
    THEN Some(notes[CHOOSE i \in 1..Len(notes) :
                       /\ notes[i].isPrimary
                       /\ \A j \in 1..(i - 1) : ~notes[j].isPrimary])
    ELSE IF Len(notes) > 0 THEN Some(notes[1]) ELSE None

\* a linking that forgets to clear the previous primary
LinkNoteKeepsPrimary(notes, p, isPrimary) ==
    LET i == findIndex(notes, p)
    IN IF i > 0
       THEN (IF isPrimary THEN [notes EXCEPT ![i].isPrimary = TRUE] ELSE notes)
       ELSE Append(notes, LinkedNote(p, isPrimary))

\* the linkedNotes list addLinkedNote leaves
LinkNote(notes, p, isPrimary) ==
    LET i == findIndex(notes, p)
    IN IF i > 0
       THEN (IF isPrimary
             THEN [ResetPrimary(notes) EXCEPT ![i].isPrimary = TRUE]
             ELSE notes)
       ELSE Append(IF isPrimary THEN ResetPrimary(notes) ELSE notes,
                   LinkedNote(p, isPrimary))

addLinkedNote(files, dir, p, isPrimary) ==
    IF ~IsSome(files[dir].meta) THEN files
    ELSE LET m == files[dir].meta[1]
             notes == LinkNote(m.linkedNotes, p, isPrimary)
             named == isPrimary \/ Len(notes) = 1
             primaryNote == PrimaryOrFirst(notes)[1]
         IN [files EXCEPT ![dir].meta =
               Some([sessionName |-> IF named THEN basename(p) ELSE m.sessionName,
                     isStandalone |-> IF named THEN FALSE ELSE m.isStandalone,
                     linkedNotes |-> notes,
                     notePath |-> Some(primaryNote.path),
                     noteTitle |-> Some(primaryNote.title)])]

\* the metadata updateSessionPaths writes for one session
RenameInMeta(m, oldPath, newPath) ==
    LET notes == [i \in 1..Len(m.linkedNotes) |->
                    IF m.linkedNotes[i].path = oldPath
                    THEN [m.linkedNotes[i] EXCEPT !.path = newPath,
                                                  !.title = basename(newPath)]
                    ELSE m.linkedNotes[i]]
        legacy == m.notePath = Some(oldPath)
        updated == legacy \/ notes /= m.linkedNotes
        primary == {i \in 1..Len(notes) : notes[i].isPrimary}
        first == CHOOSE i \in primary : \A j \in primary : i <= j
    IN IF ~updated THEN m
       ELSE [sessionName |-> IF primary /= {} /\ notes[first].path = newPath
                             THEN notes[first].title ELSE m.sessionName,
             isStandalone |-> m.isStandalone,
             linkedNotes |-> notes,
             notePath |-> IF legacy THEN Some(newPath) ELSE m.notePath,
             noteTitle |-> IF legacy THEN Some(basename(newPath))
                           ELSE m.noteTitle]

updateSessionPaths(files, oldPath, newPath) ==
    [d \in DOMAIN files |->
        IF IsSome(files[d].meta)
        THEN [files[d] EXCEPT !.meta = Some(RenameInMeta(@[1], oldPath, newPath))]
        ELSE files[d]]

\* message n of a session: the user message of an exchange has an odd n
HistoryMessage(n) ==
    [role |-> IF n % 2 = 1 THEN "user" ELSE "assistant",
     content |-> (n + 1) \div 2,
     timestamp |-> n]

\* a cap that keeps the oldest messages
CapHistoryHead(history) ==
    IF Len(history) > HistoryCap THEN SubSeq(history, 1, HistoryCap)
    ELSE history

\* if (history.length > 20) history = history.slice(-20)
CapHistory(history) ==
    IF Len(history) > HistoryCap
    THEN SubSeq(history, Len(history) - HistoryCap + 1, Len(history))
    ELSE history

\* saveConversationHistory on a directory that has had n calls; writing into
\* a missing directory throws
saveConversationHistory(files, dir, n) ==
    IF ~files[dir].exists THEN files
    ELSE LET old == IF IsSome(files[dir].history) THEN files[dir].history[1]
                    ELSE <<>>
             new == old \o <<HistoryMessage(2 * n + 1), HistoryMessage(2 * n + 2)>>
         IN [files EXCEPT ![dir].history = Some(CapHistory(new))]

\* fs.rmSync(sessionDir, { recursive: true, force: true }): session files
deleteSessionFiles(files, dir) == [files EXCEPT ![dir] = NoDir]

\* ... and the context.json in the same directory
deleteSessionContext(dsk, dir) ==
    IF dir \in Hashes THEN [dsk EXCEPT ![dir] = None] ELSE dsk

\* ---------------------------------------------------------------- backends
\* A decoded JSON line as the adapters read it.  json is the kind of the
\* decoded value; an object carries the fields of ClaudeRawEvent and
\* OpenCodeRawEvent, None where the key is missing.  A property read on a
\* number, string or boolean gives undefined, so such a value reads like an
\* object without keys; a property read on null throws a TypeError.
RawObject ==
    [json |-> "object", type |-> None, subtype |-> None, session_id |-> None,
     model |-> None, tools |-> None, message |-> None, tool_name |-> None,
     input |-> None, result |-> None, duration_ms |-> None,
     total_cost_usd |-> None, usage |-> None, event |-> None,
     sessionID |-> None, part |-> None]

JsonNull == [RawObject EXCEPT !.json = "null"]

JsonNumber == [RawObject EXCEPT !.json = "number"]

\* OpenCodeRawEvent.part, .part.state and .part.tokens
RawPart ==
    [text |-> None, sessionID |-> None, tool |-> None, state |-> None,
     cost |-> None, tokens |-> None]

RawState == [status |-> None, input |-> None, output |-> None]

RawTokens == [input |-> None, output |-> None, cache |-> None]

\* ClaudeRawEvent.message.content[i], .event and .usage
RawBlock(type) == [type |-> type, text |-> None, name |-> None, input |-> None]

RawStreamEvent(type) == [type |-> type, delta |-> None, content_block |-> None]

RawUsage == [input_tokens |-> None, output_tokens |-> None]

\* StandardEvent | null, or the TypeError the call ends with
StandardEvent ==
    [ret |-> "event", type |-> "", blockType |-> None, sessionId |-> None,
     text |-> None, toolName |-> None, toolInput |-> None,
     toolOutput |-> None, tokens |-> None, cost |-> None,
     durationMs |-> None, isStreaming |-> None, model |-> None,
     tools |-> None]

Null == [StandardEvent EXCEPT !.ret = "null"]

TypeError == [StandardEvent EXCEPT !.ret = "TypeError"]

\* string | null, or the TypeError the call ends with
NullId == [ret |-> "null", id |-> ""]

ThrownId == [ret |-> "TypeError", id |-> ""]

StringId(s) == [ret |-> "string", id |-> s]

\* x || 0 for an optional number, x || 'unknown' and !x for an optional string
OrZero(o) == IF IsSome(o) /\ o[1] # 0 THEN o[1] ELSE 0

OrUnknown(o) == IF IsSome(o) /\ o[1] # "" THEN o[1] ELSE "unknown"

TruthyOpt(o) == IsSome(o) /\ Truthy(o[1])

\* ---- OpenCodeBackend
\* parseStepStartEvent: the first step_start is the init event
OpenCode_parseStepStartEvent(seen, event) ==
    IF ~seen
    THEN [StandardEvent EXCEPT !.type = "init", !.sessionId = event.sessionID]
    ELSE Null

\* the variant that does not mark the text as streamed
TextNotStreaming(event) ==
    LET text == IF IsSome(event.part) THEN event.part[1].text ELSE None
    IN  IF ~TruthyOpt(text) THEN Null
        ELSE [StandardEvent EXCEPT !.type = "text", !.text = text,
                                   !.sessionId = event.sessionID]

\* parseTextEvent
OpenCode_parseTextEvent(event) ==
    LET text == IF IsSome(event.part) THEN event.part[1].text ELSE None
    IN  IF ~TruthyOpt(text) THEN Null
        ELSE [StandardEvent EXCEPT !.type = "text", !.text = text,
                                   !.sessionId = event.sessionID,
                                   !.isStreaming = Some(TRUE)]

\* the variant that does not look at state.status
ToolUseAlwaysStart(event) ==
    IF ~IsSome(event.part) THEN Null
    ELSE [StandardEvent EXCEPT !.type = "tool_start",
                               !.toolName = Some(OrUnknown(event.part[1].tool)),
                               !.sessionId = event.sessionID]

\* parseToolUseEvent
OpenCode_parseToolUseEvent(event) ==
    IF ~IsSome(event.part) THEN Null
    ELSE LET part == event.part[1]
             toolName == Some(OrUnknown(part.tool))
         IN  IF ~IsSome(part.state)
             THEN [StandardEvent EXCEPT !.type = "tool_start",
                                        !.toolName = toolName,
                                        !.sessionId = event.sessionID]
             ELSE LET state == part.state[1]
                  IN  IF state.status = Some("completed")
                      THEN [StandardEvent EXCEPT
                               !.type = "tool_result",
                               !.toolName = toolName,
                               !.toolInput = state.input,
                               !.toolOutput = state.output,
                               !.sessionId = event.sessionID]
                      ELSE [StandardEvent EXCEPT
                               !.type = "tool_start",
                               !.toolName = toolName,
                               !.toolInput = state.input,
                               !.sessionId = event.sessionID]

\* parseStepFinishEvent
OpenCode_parseStepFinishEvent(event) ==
    LET part == event.part
        tokens == IF IsSome(part) THEN part[1].tokens ELSE None
    IN  [StandardEvent EXCEPT
            !.type = "step_complete",
            !.cost = Some(IF IsSome(part) THEN OrZero(part[1].cost) ELSE 0),
            !.tokens =
                IF IsSome(tokens)
                THEN Some([input |-> Some(OrZero(tokens[1].input)),
                           output |-> Some(OrZero(tokens[1].output)),
                           cached |-> Some(IF IsSome(tokens[1].cache)
                                           THEN OrZero(tokens[1].cache[1].read)
                                           ELSE 0)])
                ELSE None,
            !.sessionId = event.sessionID]

\* parseEvent: the switch on event.type
OpenCode_parseEvent(seen, event) ==
    IF event.json = "null" THEN TypeError
    ELSE IF event.type = Some("step_start")
         THEN OpenCode_parseStepStartEvent(seen, event)
    ELSE IF event.type = Some("text") THEN OpenCode_parseTextEvent(event)
    ELSE IF event.type = Some("tool_use")
         THEN OpenCode_parseToolUseEvent(event)
    ELSE IF event.type = Some("step_finish")
         THEN OpenCode_parseStepFinishEvent(event)
    ELSE Null

\* this.hasSeenInit after parseEvent(event)
OpenCode_hasSeenInit(seen, event) ==
    IF event.json # "null" /\ event.type = Some("step_start")
    THEN TRUE ELSE seen

\* extractSessionId: event.sessionID || null
OpenCode_extractSessionId(event) ==
    IF event.json = "null" THEN ThrownId
    ELSE IF TruthyOpt(event.sessionID) THEN StringId(event.sessionID[1])
    ELSE NullId

\* a reset() that leaves the flag as it is
ResetKeepsFlag(seen) == seen

\* reset(): this.hasSeenInit = false
OpenCode_reset(seen) == FALSE

\* ---- ClaudeBackend
\* parseSystemEvent
Claude_parseSystemEvent(event) ==
    IF event.subtype = Some("init")
    THEN [StandardEvent EXCEPT !.type = "init",
                               !.sessionId = event.session_id,
                               !.model = event.model,
                               !.tools = event.tools]
    ELSE Null

\* one content block of an assistant message, Null when it is not recognized
BlockEvent(block) ==
    IF block.type = "thinking" /\ TruthyOpt(block.text)
    THEN [StandardEvent EXCEPT !.type = "thinking", !.text = block.text]
    ELSE IF block.type = "text" /\ TruthyOpt(block.text)
    THEN [StandardEvent EXCEPT !.type = "text", !.text = block.text]
    ELSE IF block.type = "tool_use" /\ TruthyOpt(block.name)
    THEN [StandardEvent EXCEPT !.type = "tool_start",
                               !.toolName = block.name,
                               !.toolInput = block.input]
    ELSE Null

\* the for...of loop of parseAssistantEvent: it returns at the first block
\* that is recognized
RECURSIVE FirstBlockEvent(_)
FirstBlockEvent(content) ==
    IF content = <<>> THEN Null
    ELSE IF BlockEvent(Head(content)) # Null THEN BlockEvent(Head(content))
    ELSE FirstBlockEvent(Tail(content))

\* parseAssistantEvent; message.content is [json, items]: iterating a value
\* that is not an array (a number) throws
Claude_parseAssistantEvent(event) ==
    IF ~IsSome(event.message) THEN Null
    ELSE IF ~IsSome(event.message[1].content) THEN Null
    ELSE LET content == event.message[1].content[1]
         IN  IF content.json # "array" THEN TypeError
             ELSE FirstBlockEvent(content.items)

\* parseToolUseEvent; result is [json, s]: a string stays as it is, any other
\* value becomes its JSON text
Claude_parseToolUseEvent(event) ==
    LET toolName == Some(OrUnknown(event.tool_name))
    IN  IF event.subtype = Some("input") /\ IsSome(event.input)
        THEN [StandardEvent EXCEPT !.type = "tool_start",
                                   !.toolName = toolName,
                                   !.toolInput = event.input]
        ELSE IF event.subtype = Some("result")
        THEN [StandardEvent EXCEPT
                 !.type = "tool_result",
                 !.toolName = toolName,
                 !.toolOutput = IF IsSome(event.result)
                                THEN Some(event.result[1].s) ELSE None]
        ELSE Null

\* parseResultEvent
Claude_parseResultEvent(event) ==
    [StandardEvent EXCEPT
        !.type = "step_complete",
        !.durationMs = event.duration_ms,
        !.cost = event.total_cost_usd,
        !.tokens = IF IsSome(event.usage)
                   THEN Some([input |-> event.usage[1].input_tokens,
                              output |-> event.usage[1].output_tokens,
                              cached |-> None])
                   ELSE None]

\* parseStreamEvent
Claude_parseStreamEvent(event) ==
    IF ~IsSome(event.event) THEN Null
    ELSE LET streamEvent == event.event[1]
             delta == streamEvent.delta
             blockType == IF IsSome(streamEvent.content_block)
                          THEN streamEvent.content_block[1].type ELSE ""
         IN  IF streamEvent.type = "content_block_delta"
             THEN IF IsSome(delta) /\ delta[1].type = "text_delta"
                     /\ TruthyOpt(delta[1].text)
                  THEN [StandardEvent EXCEPT !.type = "text",
                                             !.text = delta[1].text,
                                             !.isStreaming = Some(TRUE)]
                  ELSE IF IsSome(delta) /\ delta[1].type = "thinking_delta"
                          /\ TruthyOpt(delta[1].text)
                  THEN [StandardEvent EXCEPT !.type = "thinking",
                                             !.text = delta[1].text,
                                             !.isStreaming = Some(TRUE)]
                  ELSE Null
             ELSE IF streamEvent.type = "content_block_start"
             THEN IF blockType \in {"text", "thinking"}
                  THEN [StandardEvent EXCEPT !.type = "block_start",
                                             !.blockType = Some(blockType)]
                  ELSE Null
             ELSE IF streamEvent.type = "content_block_stop"
             THEN [StandardEvent EXCEPT !.type = "block_end"]
             ELSE Null

\* parseEvent: the switch on event.type
Claude_parseEvent(event) ==
    IF event.json = "null" THEN TypeError
    ELSE IF event.type = Some("system") THEN Claude_parseSystemEvent(event)
    ELSE IF event.type = Some("assistant")
         THEN Claude_parseAssistantEvent(event)
    ELSE IF event.type = Some("tool_use") THEN Claude_parseToolUseEvent(event)
    ELSE IF event.type = Some("result") THEN Claude_parseResultEvent(event)
    ELSE IF event.type = Some("stream_event")
         THEN Claude_parseStreamEvent(event)
    ELSE Null

\* extractSessionId: only system/init, session_id || null
Claude_extractSessionId(event) ==
    IF event.json = "null" THEN ThrownId
    ELSE IF event.type = Some("system") /\ event.subtype = Some("init")
              /\ TruthyOpt(event.session_id)
    THEN StringId(event.session_id[1])
    ELSE NullId

\* ---- CLIBackend: the adapter createBackend(type) returns
BackendNames == {"claude", "opencode"}

parseEvent(backend, seen, rawEvent) ==
    IF backend = "opencode" THEN OpenCode_parseEvent(seen, rawEvent)
    ELSE Claude_parseEvent(rawEvent)

extractSessionId(backend, rawEvent) ==
    IF backend = "opencode" THEN OpenCode_extractSessionId(rawEvent)
    ELSE Claude_extractSessionId(rawEvent)

\* this.hasSeenInit after parseEvent; ClaudeBackend has no such field
hasSeenInitAfter(backend, seen, rawEvent) ==
    IF backend = "opencode" THEN OpenCode_hasSeenInit(seen, rawEvent)
    ELSE seen

\* backend.reset?.(): ClaudeBackend does not define reset
reset(backend, seen) ==
    IF backend = "opencode" THEN OpenCode_reset(seen) ELSE seen

\* ----------------------------------------------------------- ProcessSpawner
\* An environment maps a variable name to its value, None when it is not set.
EnvKeys ==
    {"LANG", "LC_ALL", "LC_CTYPE", "PYTHONIOENCODING", "NODE_OPTIONS",
     "ANTHROPIC_API_KEY"}

\* what the login shell (or process.env) may hold for a variable
HostValue(k) ==
    CASE k \in {"LANG", "LC_ALL", "LC_CTYPE"} -> "C"
      [] k = "PYTHONIOENCODING" -> "latin-1"
      [] k = "NODE_OPTIONS" -> "--trace-warnings"
      [] OTHER -> "sk-host"

\* what the user may have entered for it as a custom variable
CustomValue(k) ==
    CASE k \in {"LANG", "LC_ALL", "LC_CTYPE"} -> "de_DE.ISO-8859-1"
      [] k = "PYTHONIOENCODING" -> "cp1252"
      [] k = "NODE_OPTIONS" -> "--no-warnings"
      [] OTHER -> "sk-custom"

ShellEnvs == [EnvKeys -> {None, Some("host")}]

CustomEnvs == [EnvKeys -> {None, Some(""), Some("custom")}]

\* `${shellEnv.NODE_OPTIONS} --input-type=module`
WithInputType(v) ==
    CASE v = "--trace-warnings" -> "--trace-warnings --input-type=module"
      [] v = "--no-warnings" -> "--no-warnings --input-type=module"
      [] OTHER -> "--input-type=module"

\* the environment the shell produced, with real values
ShellEnvironment(pick) ==
    [k \in EnvKeys |-> IF IsSome(pick[k]) THEN Some(HostValue(k)) ELSE None]

\* config.customEnvVars, with real values
CustomEnvVars(pick) ==
    [k \in EnvKeys |->
        IF pick[k] = Some("custom") THEN Some(CustomValue(k)) ELSE pick[k]]

\* for (const [key, value] of Object.entries(config.customEnvVars))
\*     if (value) shellEnv[key] = value
MergeCustom(shellEnv, customEnvVars) ==
    [k \in EnvKeys |->
        IF TruthyOpt(customEnvVars[k]) THEN customEnvVars[k] ELSE shellEnv[k]]

\* shellEnv.LANG || 'en_US.UTF-8'
OrUtf8(o) == IF TruthyOpt(o) THEN o ELSE Some("en_US.UTF-8")

\* envWithUtf8: the env option of the spawned child
envWithUtf8(shellEnv) ==
    [k \in EnvKeys |->
        CASE k \in {"LANG", "LC_ALL", "LC_CTYPE"} -> OrUtf8(shellEnv[k])
          [] k = "PYTHONIOENCODING" -> Some("utf-8")
          [] k = "NODE_OPTIONS" ->
                IF TruthyOpt(shellEnv[k])
                THEN Some(WithInputType(shellEnv[k][1])) ELSE Some("")
          [] OTHER -> shellEnv[k]]

\* ProcessSpawner.spawn: the environment of the child process
SpawnEnv(shellEnv, customEnvVars) ==
    envWithUtf8(MergeCustom(shellEnv, customEnvVars))

NoSpawn == [shellEnv |-> [k \in EnvKeys |-> None],
            customEnvVars |-> [k \in EnvKeys |-> None],
            env |-> None]

\* ------------------------------------------------------------------ runner
\* ClaudeCodeRunner is not part of the sources at hand; it is modelled by its
\* contract: run(request, onLine) stays unresolved until the child process has
\* exited, terminate() signals the child process and returns at once.

\* the i-th line the child process of run r emits
LineOf(r, i) == [run |-> r, idx |-> i]

\* lines with an odd index are tool activity, lines with an even index are
\* streamed text (isStreaming === true)
IsStreamingLine(line) == line.idx % 2 = 0

\* OutputRenderer.parseAgentActivity(text): Some(step) or None
parseAgentActivity(line) ==
    IF line.idx % 2 = 1 THEN Some([key |-> line]) ELSE None

Response(success, isPermissionRequest, modified, error) ==
    [success |-> success, isPermissionRequest |-> isPermissionRequest,
     modified |-> modified, error |-> error]

RespCompleted == Response(TRUE, FALSE, FALSE, "")
RespPermission == Response(TRUE, TRUE, FALSE, "")
RespModified == Response(TRUE, FALSE, TRUE, "")
RespSpawnError == Response(FALSE, FALSE, FALSE, "spawn")
RespTimeout == Response(FALSE, FALSE, FALSE, "timeout")
RespCancelled == Response(FALSE, FALSE, FALSE, "cancelled")

\* the responses run r can resolve with
PossibleResponses(run) ==
    IF run.terminated THEN {RespCancelled}
    ELSE {RespCompleted, RespPermission, RespModified, RespTimeout}
         \cup (IF run.sent = 0 THEN {RespSpawnError} ELSE {})

InFlight(rs) == {r \in 1..Len(rs) : rs[r].status = "inflight"}

\* the runs in flight on the runner of the context with key k
InFlightOn(rs, k) == {r \in InFlight(rs) : rs[r].ctx = k}

\* runner.terminate(): signals the runner's current child process, the one
\* of the run started last
terminate(rs, k) ==
    IF InFlightOn(rs, k) = {} THEN rs
    ELSE LET last == CHOOSE r \in InFlightOn(rs, k) :
                         \A q \in InFlightOn(rs, k) : q <= r
         IN [rs EXCEPT ![last].terminated = TRUE]

\* --------------------------------------------------------- ClaudeCodeView
IsStandalonePath(p) == p \in {"standalone:s1", "standalone:s2", "standalone:s3"}

\* updateCurrentNoteLabel reads the context of the current note
updateCurrentNoteLabel(ctxs, cur, standalone) ==
    IF (Truthy(cur) /\ ~IsStandalonePath(cur))
       \/ IsStandalonePath(cur) \/ IsSome(standalone)
    THEN getContext(ctxs, cur)
    ELSE ctxs

\* a guard that never rejects
IsNeverBusy(ctxs, k) == FALSE

\* a guard that looks at every context instead of the one asked for
IsAnyBusy(ctxs, k) == getRunningCount(ctxs) > 0

\* the guard of handleRunClaudeCode: if (context.isRunning)
IsBusy(ctxs, k) == Ctx(ctxs, k).isRunning

\* hidePreview clears the preview pair of the current context
hidePreview(ctxs, cur) ==
    LET c1 == getContext(ctxs, cur)
    IN [c1 EXCEPT ![cur] = Some([Ctx(c1, cur) EXCEPT
                                    !.pendingPreviewContent = None,
                                    !.originalPreviewContent = None])]

\* showPreview(modifiedContent, forNotePath)
showPreview(ctxs, forNotePath) ==
    LET c1 == getContext(ctxs, forNotePath)
    IN [c1 EXCEPT ![forNotePath] = Some([Ctx(c1, forNotePath) EXCEPT
                                    !.pendingPreviewContent = Some("modified"),
                                    !.originalPreviewContent = Some("original")])]

\* an append that writes to the context on display
appendOutputToCurrent(ctxs, notePath, cur, text) ==
    LET c1 == getContext(ctxs, cur)
        c == Ctx(c1, cur)
        step == IF IsStreamingLine(text) THEN None ELSE parseAgentActivity(text)
    IN [c1 EXCEPT ![cur] =
           Some([c EXCEPT !.outputLines = Append(c.outputLines, text),
                          !.agentSteps = c.agentSteps \o step])]

\* cur is this.currentNotePath, which decides only what is drawn
appendOutputToNote(ctxs, notePath, cur, text) ==
    LET c1 == getContext(ctxs, notePath)
        c == Ctx(c1, notePath)
        step == IF IsStreamingLine(text) THEN None ELSE parseAgentActivity(text)
    IN [c1 EXCEPT ![notePath] =
           Some([c EXCEPT !.outputLines = Append(c.outputLines, text),
                          !.agentSteps = c.agentSteps \o step])]

HistoryItem(prompt, success, notePath, withLines) ==
    [prompt |-> prompt, success |-> success, notePath |-> notePath,
     aliased |-> withLines, lines |-> <<>>]

PushHistory(c, item) == [c EXCEPT !.history = Append(c.history, item)]

ApprovalPrompt == "approve"

\* this.app.vault.configDir and the vault's base path
ConfigDir == ".obsidian"

VaultPath == "/vault"

\* ClaudeCodeRequest as handleRunClaudeCode builds it; bypassPermissions is
\* not set there (FALSE stands for the missing field)
Request(userPrompt, notePath, sessionDir, bypassPermissions) ==
    [noteContent |-> IF IsSome(notePath) THEN Some("content") ELSE None,
     userPrompt |-> userPrompt, notePath |-> notePath,
     selectedText |-> None, vaultPath |-> VaultPath, configDir |-> ConfigDir,
     runtimeModelOverride |-> None, conversationalMode |-> FALSE,
     sessionDir |-> sessionDir, bypassPermissions |-> bypassPermissions]

\* a request built anew for the approval instead of copied
ApprovalRequestFresh(currentRequest) ==
    Request(ApprovalPrompt, None, None, TRUE)

\* { ...context.currentRequest, userPrompt: approvalPrompt,
\*   bypassPermissions: true, configDir: this.app.vault.configDir }
ApprovalRequest(currentRequest) ==
    [currentRequest EXCEPT !.userPrompt = ApprovalPrompt,
                           !.bypassPermissions = TRUE,
                           !.configDir = ConfigDir]

NewRun(kind, ctx, notePath, fileIsNote, request) ==
    [kind |-> kind, ctx |-> ctx, notePath |-> notePath,
     fileIsNote |-> fileIsNote, request |-> request,
     status |-> "inflight", terminated |-> FALSE, sent |-> 0]

\* a run whose runner.run call has resolved: the handler that awaited it is
\* done and nothing of the call is left
ResolvedRun ==
    [kind |-> "", ctx |-> "", notePath |-> "", fileIsNote |-> FALSE,
     request |-> Request("", None, None, FALSE),
     status |-> "resolved", terminated |-> FALSE, sent |-> 0]

\* one NoteContextManager call
Op(name, key) == [op |-> name, key |-> key]
NoOp == Op("", "")
NoCalls == [n |-> 0, prev |-> NoOp, last |-> NoOp]
Called(log, name, key) ==
    [n |-> log.n + 1, prev |-> log.last, last |-> Op(name, key)]

\* what loadNoteContext(notePath) leaves: <<contexts, cancel button shown,
\* permission section shown>>
loadNoteContext(ctxs, notePath) ==
    LET c1 == getContext(ctxs, notePath)
        c == Ctx(c1, notePath)
    IN [contexts |-> c1,
        cancelVisible |-> c.isRunning,
        permissionVisible |-> /\ IsSome(c.currentResponse)
                              /\ c.currentResponse[1].isPermissionRequest
                              /\ ~c.isRunning]

\* the state onOpen leaves on an empty data directory
InitView ==
    /\ disk = NoDisk
    /\ runs = <<>>
    /\ activeFile \in {None} \cup {Some(f) : f \in Notes}
    /\ currentNotePath = (IF IsSome(activeFile) THEN activeFile[1] ELSE "")
    /\ contexts = (IF Truthy(currentNotePath)
                   THEN loadNoteContext(loadContexts(NoContexts, disk),
                                        currentNotePath).contexts
                   ELSE loadContexts(NoContexts, disk))
    /\ activeStandaloneSession = None
    /\ permissionVisible = FALSE
    /\ cancelVisible = FALSE
    /\ notices = {}
    /\ sessionsCreated = 0
    /\ fresh = NoContexts
    /\ oplog = NoCalls
    /\ sessionFiles = NoSessionFiles
    /\ exchanges = NoExchanges
    /\ backendName = "claude"
    /\ hasSeenInit = FALSE
    /\ rawLines = <<>>
    /\ events = <<>>
    /\ sessionIds = <<>>
    /\ resets = 0
    /\ settings = DefaultSettings
    /\ runnerSettings = NoRunners
    /\ spawner = NoSpawn
    /\ timeoutSeconds = DefaultTimeout
    /\ timers = NoTimers
    /\ selection = None
    /\ edits = NoEdit
    /\ tooling = NoTooling
    /\ denied = {}
    /\ outputLines = <<>>
    /\ parsed = NoParse

\* ... with a file system that works
Init == InitView /\ faults = NoFaults

\* ... with a file system on which writes may fail (a full or read-only disk)
InitPersist ==
    InitView /\ faults \in {[NoFaults EXCEPT !.writeFails = b] : b \in BOOLEAN}

\* handleRunClaudeCode, rejected: the context is running
HandleRunAlreadyProcessing ==
    LET c1 == getContext(contexts, currentNotePath)
    IN /\ IsBusy(c1, currentNotePath)
       /\ contexts' = c1
       /\ notices' = {Notice("alreadyProcessing")}
       /\ UNCHANGED <<disk, runs, currentNotePath, activeStandaloneSession,
                      activeFile, permissionVisible, cancelVisible, sessionsCreated, fresh, oplog,
                      sessVars, backendVars, settingsVars, spawnVars, faultVars, timerVars, editorVars, toolVars, permVars, parserVars>>

\* handleRunClaudeCode, rejected: the prompt is empty after trimming
HandleRunNoPrompt(prompt) ==
    LET c1 == getContext(contexts, currentNotePath)
    IN /\ ~IsBusy(c1, currentNotePath)
       /\ ~Truthy(prompt)
       /\ contexts' = c1
       /\ notices' = {Notice("enterPrompt")}
       /\ UNCHANGED <<disk, runs, currentNotePath, activeStandaloneSession,
                      activeFile, permissionVisible, cancelVisible, sessionsCreated, fresh, oplog,
                      sessVars, backendVars, settingsVars, spawnVars, faultVars, timerVars, editorVars, toolVars, permVars, parserVars>>

\* handleRunClaudeCode, rejected: a file is active but no editor shows it
HandleRunNoEditor(prompt, hasEditor) ==
    LET c1 == getContext(contexts, currentNotePath)
    IN /\ ~IsBusy(c1, currentNotePath)
       /\ Truthy(prompt)
       /\ ~hasEditor
       /\ ~IsSome(activeStandaloneSession)
       /\ IsSome(activeFile)
       /\ contexts' = c1
       /\ notices' = {Notice("noEditor")}
       /\ UNCHANGED <<disk, runs, currentNotePath, activeStandaloneSession,
                      activeFile, permissionVisible, cancelVisible, sessionsCreated, fresh, oplog,
                      sessVars, backendVars, settingsVars, spawnVars, faultVars, timerVars, editorVars, toolVars, permVars, parserVars>>

\* handleRunClaudeCode up to the await of runner.run
HandleRunStart(prompt, hasEditor) ==
    LET ctxKey == currentNotePath
        c1 == getContext(contexts, ctxKey)
        createsSession == ~IsSome(activeStandaloneSession) /\ ~IsSome(activeFile)
        standalone == IF createsSession
                      THEN Some(SessionDirs[sessionsCreated + 1])
                      ELSE activeStandaloneSession
        isStandaloneSession == IsSome(standalone)
        cur == IF createsSession THEN StandaloneKey(standalone[1])
               ELSE currentNotePath
        file == IF isStandaloneSession THEN None ELSE activeFile
        \* 644: updateCurrentNoteLabel after the session was created
        c2 == IF createsSession THEN updateCurrentNoteLabel(c1, cur, standalone)
              ELSE c1
        \* 671-674: selectedText is read from the editor of the note
        request == [Request(prompt, file, standalone, FALSE) EXCEPT
                       !.selectedText = IF IsSome(file) THEN selection ELSE None]
        \* 679, 696: context.currentRequest = ..., context.outputLines = []
        c3 == [c2 EXCEPT ![ctxKey] =
                  Some([ResetOutputLines(Ctx(c2, ctxKey)) EXCEPT
                           !.currentRequest = Some(request)])]
        c4 == hidePreview(c3, cur)
        runNotePath == IF IsSome(file) THEN file[1]
                       ELSE StandaloneKey(standalone[1])
        \* 747: context.isRunning = true
        c5 == [c4 EXCEPT ![ctxKey] =
                  Some([Ctx(c4, ctxKey) EXCEPT !.isRunning = TRUE])]
        c6 == updateCurrentNoteLabel(c5, cur, standalone)
    IN /\ ~IsBusy(c1, ctxKey)
       /\ Truthy(prompt)
       /\ IsSome(file) => hasEditor
       /\ Len(runs) < MaxRuns
       /\ createsSession => sessionsCreated < MaxSessions
       /\ contexts' = c6
       /\ runs' = Append(runs, NewRun("run", ctxKey, runNotePath,
                                      IsSome(file), request))
       /\ currentNotePath' = cur
       /\ activeStandaloneSession' = standalone
       /\ sessionsCreated' = (IF createsSession THEN sessionsCreated + 1
                              ELSE sessionsCreated)
       \* 636: SessionManager.createStandaloneSession; 726: getSessionInfo
       /\ sessionFiles' =
              (IF createsSession
               THEN createStandaloneSession(sessionFiles, standalone[1])
               ELSE IF IsSome(file) THEN getSessionInfo(sessionFiles, file[1])
               ELSE sessionFiles)
       /\ cancelVisible' = TRUE
       /\ notices' = {}
       /\ UNCHANGED <<disk, activeFile, permissionVisible,
                      fresh, oplog, exchanges,
                      backendVars, settingsVars, spawnVars, faultVars, timerVars, editorVars, toolVars, permVars, parserVars>>

\* promptInput.value.trim()
Prompts == {"", "p"}

handleRunClaudeCode ==
    \E prompt \in Prompts, hasEditor \in BOOLEAN :
        \/ HandleRunAlreadyProcessing
        \/ HandleRunNoPrompt(prompt)
        \/ HandleRunNoEditor(prompt, hasEditor)
        \/ HandleRunStart(prompt, hasEditor)

\* the onLine callback of run r delivers the next line of its child process
OnLine(r) ==
    /\ r \in InFlight(runs)
    /\ runs[r].sent < MaxLines
    /\ contexts' = appendOutputToNote(contexts, runs[r].notePath,
                                      currentNotePath,
                                      LineOf(r, runs[r].sent + 1))
    /\ runs' = [runs EXCEPT ![r].sent = @ + 1]
    /\ notices' = {}
    /\ UNCHANGED <<disk, currentNotePath, activeStandaloneSession, activeFile,
                   permissionVisible, cancelVisible,
                   sessionsCreated, fresh, oplog,
                      sessVars, backendVars, settingsVars, spawnVars, faultVars, timerVars, editorVars, toolVars, permVars, parserVars>>

\* a completion that stores the response and leaves the flag set
FinishRunKeepsFlag(ctxs, ctxKey, response) ==
    [ctxs EXCEPT ![ctxKey] = Some([Ctx(ctxs, ctxKey) EXCEPT
                                      !.currentResponse = Some(response)])]

\* context.isRunning = false; context.currentResponse = response
FinishRun(ctxs, ctxKey, response) ==
    [ctxs EXCEPT ![ctxKey] = Some([Ctx(ctxs, ctxKey) EXCEPT
                                      !.isRunning = FALSE,
                                      !.currentResponse = Some(response)])]

\* applyChangesToEditor(content, editor): the editor call it makes, chosen
\* from the request of getCurrentContext()
applyChangesToEditor(ctxs, cur) ==
    LET context == Ctx(getContext(ctxs, cur), cur)
    IN IF IsSome(context.currentRequest)
          /\ TruthyOpt(context.currentRequest[1].selectedText)
       THEN "replaceSelection" ELSE "setValue"

\* handleRunClaudeCode after the await: runner.run of r resolved with response
ResumeRun(r, response, autoAccept) ==
    LET run == runs[r]
        ctxKey == run.ctx
        runNotePath == run.notePath
        c1 == FinishRun(contexts, ctxKey, response)
        c2 == updateCurrentNoteLabel(c1, currentNotePath, activeStandaloneSession)
        item == HistoryItem(run.request.userPrompt, response.success,
                            runNotePath, response.success)
        c3 == [c2 EXCEPT ![ctxKey] = Some(PushHistory(Ctx(c2, ctxKey), item))]
        \* 807: if (file) saveContext(file.path, vaultPath)
        \* 808-812: a saveContext that throws is caught and logged
        d1 == IF response.success /\ run.fileIsNote /\ ~faults.writeFails
              THEN saveContext(c3, disk, runNotePath) ELSE disk
        previews == response.success /\ response.modified /\ run.fileIsNote
        \* applyChangesToEditor reads the current context
        c4 == IF previews /\ ~autoAccept THEN showPreview(c3, runNotePath)
              ELSE IF previews THEN getContext(c3, currentNotePath)
              ELSE c3
    IN /\ r \in InFlight(runs)
       /\ run.kind = "run"
       /\ response \in PossibleResponses(run)
       /\ runs' = [runs EXCEPT ![r] = ResolvedRun]
       /\ contexts' = c4
       /\ disk' = d1
       /\ cancelVisible' = FALSE
       /\ permissionVisible' =
            (IF response.success /\ ~previews /\ response.isPermissionRequest
                /\ currentNotePath = runNotePath
             THEN TRUE ELSE permissionVisible)
       /\ notices' =
            (IF ~response.success THEN {FailureNotice(response.error)}
             ELSE IF previews
                  THEN (IF autoAccept THEN {Notice("changesApplied")} ELSE {})
             ELSE IF response.isPermissionRequest
                  THEN {Notice("permissionRequest")}
             ELSE {Notice("completed")})
       /\ edits' = (IF previews /\ autoAccept
                    THEN applyChangesToEditor(c3, currentNotePath) ELSE edits)
       /\ UNCHANGED <<currentNotePath, activeStandaloneSession, activeFile,
                      sessionsCreated, fresh, oplog, selection, toolVars, permVars, parserVars,
                      sessVars, backendVars, settingsVars, spawnVars, faultVars, timerVars>>

\* handleApprovePermission, rejected: the context has no request
HandleApproveNoPending ==
    LET c1 == getContext(contexts, currentNotePath)
    IN /\ permissionVisible
       /\ ~IsSome(Ctx(c1, currentNotePath).currentRequest)
       /\ contexts' = c1
       /\ notices' = {Notice("noPendingRequest")}
       /\ UNCHANGED <<disk, runs, currentNotePath, activeStandaloneSession,
                      activeFile, permissionVisible, cancelVisible, sessionsCreated, fresh, oplog,
                      sessVars, backendVars, settingsVars, spawnVars, faultVars, timerVars, editorVars, toolVars, permVars, parserVars>>

\* handleApprovePermission, rejected: no active file, or no editor shows it
HandleApproveNoNote(hasEditor) ==
    LET c1 == getContext(contexts, currentNotePath)
    IN /\ permissionVisible
       /\ IsSome(Ctx(c1, currentNotePath).currentRequest)
       /\ ~IsSome(activeFile) \/ ~hasEditor
       /\ contexts' = c1
       /\ permissionVisible' = FALSE
       /\ notices' = (IF ~IsSome(activeFile) THEN {Notice("noActiveNote")}
                      ELSE {Notice("noEditor")})
       /\ UNCHANGED <<disk, runs, currentNotePath, activeStandaloneSession,
                      activeFile, cancelVisible,
                      sessionsCreated, fresh, oplog,
                      sessVars, backendVars, settingsVars, spawnVars, faultVars, timerVars, editorVars, toolVars, permVars, parserVars>>

\* handleApprovePermission up to the await of runner.run
HandleApproveStart(hasEditor) ==
    LET ctxKey == currentNotePath
        c1 == getContext(contexts, ctxKey)
        old == Ctx(c1, ctxKey).currentRequest[1]
        newRequest == ApprovalRequest(old)
        c2 == hidePreview(c1, currentNotePath)
        runNotePath == activeFile[1]
        \* 2301: context.isRunning = true
        c3 == [c2 EXCEPT ![ctxKey] =
                  Some([Ctx(c2, ctxKey) EXCEPT !.isRunning = TRUE])]
    IN /\ permissionVisible
       /\ IsSome(Ctx(c1, ctxKey).currentRequest)
       /\ IsSome(activeFile)
       /\ hasEditor
       /\ Len(runs) < MaxRuns
       /\ contexts' = c3
       /\ runs' = Append(runs, NewRun("approve", ctxKey, runNotePath,
                                      TRUE, newRequest))
       /\ permissionVisible' = FALSE
       /\ cancelVisible' = TRUE
       /\ notices' = {}
       /\ UNCHANGED <<disk, currentNotePath, activeStandaloneSession,
                      activeFile, sessionsCreated, fresh, oplog,
                      sessVars, backendVars, settingsVars, spawnVars, faultVars, timerVars, editorVars, toolVars, permVars, parserVars>>

handleApprovePermission ==
    \E hasEditor \in BOOLEAN :
        \/ HandleApproveNoPending
        \/ HandleApproveNoNote(hasEditor)
        \/ HandleApproveStart(hasEditor)

\* handleApprovePermission after the await
ResumeApprove(r, response, autoAccept) ==
    LET run == runs[r]
        ctxKey == run.ctx
        runNotePath == run.notePath
        c1 == FinishRun(contexts, ctxKey, response)
        item == HistoryItem(ApprovalPrompt, TRUE, runNotePath, TRUE)
        c2 == IF response.success
              THEN [c1 EXCEPT ![ctxKey] = Some(PushHistory(Ctx(c1, ctxKey), item))]
              ELSE c1
        \* 2342: saveContext(file.path, vaultPath), outside any try: when it
        \* throws, the handler ends there with the error
        thrown == response.success /\ faults.writeFails
        d1 == IF response.success /\ ~thrown
              THEN saveContext(c2, disk, runNotePath)
              ELSE disk
        previews == response.success /\ response.modified
        c3 == IF thrown THEN c2
              ELSE IF previews /\ ~autoAccept THEN showPreview(c2, runNotePath)
              ELSE IF previews THEN getContext(c2, currentNotePath)
              ELSE c2
    IN /\ r \in InFlight(runs)
       /\ run.kind = "approve"
       /\ response \in PossibleResponses(run)
       /\ runs' = [runs EXCEPT ![r] = ResolvedRun]
       /\ contexts' = c3
       /\ disk' = d1
       /\ cancelVisible' = FALSE
       /\ faults' = (IF thrown
                     THEN [faults EXCEPT
                              !.uncaught = @ \cup {"handleApprovePermission"}]
                     ELSE faults)
       /\ notices' =
            (IF ~response.success THEN {FailureNotice(response.error)}
             ELSE IF thrown THEN {}
             ELSE IF previews
                  THEN (IF autoAccept THEN {Notice("changesApplied")} ELSE {})
             ELSE {Notice("completed")})
       /\ edits' = (IF previews /\ autoAccept /\ ~thrown
                    THEN applyChangesToEditor(c2, currentNotePath) ELSE edits)
       /\ UNCHANGED <<currentNotePath, activeStandaloneSession, activeFile,
                      permissionVisible, sessionsCreated, fresh, oplog, selection, toolVars, permVars, parserVars,
                      sessVars, backendVars, settingsVars, spawnVars, timerVars>>

Responses == {RespCompleted, RespPermission, RespModified, RespSpawnError,
              RespTimeout, RespCancelled}

\* runner.run of r resolves and the handler that awaits it continues
RunResolves(r) ==
    \E response \in Responses, autoAccept \in BOOLEAN :
        \/ ResumeRun(r, response, autoAccept)
        \/ ResumeApprove(r, response, autoAccept)

\* a cancel that leaves the flag set until the process has exited
LeaveRunning(c) == c

\* 2484: context.isRunning = false
MarkCancelled(c) == [c EXCEPT !.isRunning = FALSE]

handleCancel ==
    LET c1 == getContext(contexts, currentNotePath)
    IN /\ cancelVisible
       /\ runs' = terminate(runs, currentNotePath)
       /\ contexts' = [c1 EXCEPT ![currentNotePath] =
                          Some(MarkCancelled(Ctx(c1, currentNotePath)))]
       /\ cancelVisible' = FALSE
       /\ notices' = {Notice("cancelled")}
       /\ UNCHANGED <<disk, currentNotePath, activeStandaloneSession,
                      activeFile, permissionVisible,
                      sessionsCreated, fresh, oplog,
                      sessVars, backendVars, settingsVars, spawnVars, faultVars, timerVars, editorVars, toolVars, permVars, parserVars>>

\* the workspace makes file the active file and fires active-leaf-change
onActiveNoteChange(file, isMarkdownLeafActive) ==
    LET leavesStandalone == /\ IsSome(activeStandaloneSession)
                            /\ isMarkdownLeafActive /\ IsSome(file)
        currentRealPath == IF IsStandalonePath(currentNotePath) THEN ""
                           ELSE currentNotePath
        switches == \/ leavesStandalone
                    \/ /\ ~IsSome(activeStandaloneSession)
                       /\ IsSome(file) /\ file[1] /= currentRealPath
        cur == IF switches THEN file[1] ELSE currentNotePath
        c1 == updateCurrentNoteLabel(contexts, cur, None)
        loaded == loadNoteContext(c1, cur)
    IN /\ isMarkdownLeafActive => IsSome(file)
       /\ activeFile' = file
       /\ notices' = {}
       /\ IF switches
          THEN /\ activeStandaloneSession' = None
               /\ currentNotePath' = cur
               /\ contexts' = loaded.contexts
               /\ cancelVisible' = loaded.cancelVisible
               /\ permissionVisible' = loaded.permissionVisible
          ELSE UNCHANGED <<activeStandaloneSession, currentNotePath, contexts,
                           cancelVisible, permissionVisible>>
       /\ UNCHANGED <<disk, runs, sessionsCreated, fresh, oplog,
                      sessVars, backendVars, settingsVars, spawnVars, faultVars, timerVars, editorVars, toolVars, permVars, parserVars>>

ActiveLeafChange ==
    \E file \in {None} \cup {Some(f) : f \in Notes},
       isMarkdownLeafActive \in BOOLEAN :
        onActiveNoteChange(file, isMarkdownLeafActive)

Next ==
    \/ handleRunClaudeCode
    \/ \E r \in 1..MaxRuns : OnLine(r)
    \/ \E r \in 1..MaxRuns : RunResolves(r)
    \/ handleApprovePermission
    \/ handleCancel
    \/ ActiveLeafChange

Spec == Init /\ [][Next]_vars

\* the view on a file system whose writes may fail
SpecPersist == InitPersist /\ [][Next]_vars

\* ------------------------------------------- NoteContextManager on its own
\* The manager driven through its public methods by a caller that holds the
\* contexts getContext hands out, as the view does; fresh is a second manager
\* constructed on the same data directory.

InitMgr ==
    /\ contexts = NoContexts
    /\ disk = NoDisk
    /\ fresh = NoContexts
    /\ oplog = NoCalls
    /\ sessionFiles = NoSessionFiles
    /\ exchanges = NoExchanges
    /\ backendName = "claude"
    /\ hasSeenInit = FALSE
    /\ rawLines = <<>>
    /\ events = <<>>
    /\ sessionIds = <<>>
    /\ resets = 0
    /\ settings = DefaultSettings
    /\ runnerSettings = NoRunners
    /\ faults = NoFaults
    /\ timeoutSeconds = DefaultTimeout
    /\ timers = NoTimers
    /\ selection = None
    /\ edits = NoEdit
    /\ tooling = NoTooling
    /\ denied = {}
    /\ outputLines = <<>>
    /\ parsed = NoParse
    /\ spawner = NoSpawn
    /\ runs = <<>>
    /\ activeFile = None
    /\ currentNotePath = ""
    /\ activeStandaloneSession = None
    /\ permissionVisible = FALSE
    /\ cancelVisible = FALSE
    /\ notices = {}
    /\ sessionsCreated = 0

MgrGetContext(k) ==
    /\ oplog.n < MaxOps
    /\ contexts' = getContext(contexts, k)
    /\ oplog' = Called(oplog, "getContext", k)
    /\ UNCHANGED <<disk, fresh>>
    /\ UNCHANGED <<viewVars, sessVars, backendVars, settingsVars, spawnVars, faultVars, timerVars, editorVars, toolVars, permVars, parserVars>>

\* the caller records one exchange on a context it holds: a line of output
\* with its agent step, and the history item of the finished run
MgrRecordExchange(k) ==
    LET c == Ctx(contexts, k)
        line == LineOf(oplog.n + 1, 1)
        c1 == [c EXCEPT !.outputLines = Append(@, line),
                        !.agentSteps = @ \o parseAgentActivity(line)]
        c2 == PushHistory(c1, HistoryItem("p", TRUE, k, TRUE))
    IN /\ oplog.n < MaxOps
       /\ hasContext(contexts, k)
       /\ contexts' = [contexts EXCEPT ![k] = Some(c2)]
       /\ oplog' = Called(oplog, "exchange", k)
       /\ UNCHANGED <<disk, fresh>>
       /\ UNCHANGED <<viewVars, sessVars, backendVars, settingsVars, spawnVars, faultVars, timerVars, editorVars, toolVars, permVars, parserVars>>

MgrSaveContext(k) ==
    /\ oplog.n < MaxOps
    /\ disk' = saveContext(contexts, disk, k)
    /\ oplog' = Called(oplog, "saveContext", k)
    /\ UNCHANGED <<contexts, fresh>>
    /\ UNCHANGED <<viewVars, sessVars, backendVars, settingsVars, spawnVars, faultVars, timerVars, editorVars, toolVars, permVars, parserVars>>

MgrSaveAllContexts ==
    /\ oplog.n < MaxOps
    /\ disk' = saveAllContexts(contexts, disk)
    /\ oplog' = Called(oplog, "saveAllContexts", "")
    /\ UNCHANGED <<contexts, fresh>>
    /\ UNCHANGED <<viewVars, sessVars, backendVars, settingsVars, spawnVars, faultVars, timerVars, editorVars, toolVars, permVars, parserVars>>

\* new NoteContextManager(settings, dataDir).loadContexts(vaultPath)
MgrLoadContexts ==
    /\ oplog.n < MaxOps
    /\ fresh' = loadContexts(NoContexts, disk)
    /\ oplog' = Called(oplog, "loadContexts", "")
    /\ UNCHANGED <<contexts, disk>>
    /\ UNCHANGED <<viewVars, sessVars, backendVars, settingsVars, spawnVars, faultVars, timerVars, editorVars, toolVars, permVars, parserVars>>

MgrClearHistory(k) ==
    /\ oplog.n < MaxOps
    /\ contexts' = clearHistory(contexts, k)
    /\ oplog' = Called(oplog, "clearHistory", k)
    /\ UNCHANGED <<disk, fresh>>
    /\ UNCHANGED <<viewVars, sessVars, backendVars, settingsVars, spawnVars, faultVars, timerVars, editorVars, toolVars, permVars, parserVars>>

NextMgr ==
    \/ \E k \in AllKeys : MgrGetContext(k)
    \/ \E k \in AllKeys : MgrRecordExchange(k)
    \/ \E k \in AllKeys : MgrSaveContext(k)
    \/ MgrSaveAllContexts
    \/ MgrLoadContexts
    \/ \E k \in AllKeys : MgrClearHistory(k)

SpecMgr == InitMgr /\ [][NextMgr]_vars

\* ------------------------------------------------ SessionManager on its own
\* The static methods of SessionManager called in any order, next to the two
\* things the view does with the contexts of the same directories: it creates
\* the context of a note it shows, and it saves all contexts when it closes.

InitSess ==
    /\ contexts = NoContexts
    /\ disk = NoDisk
    /\ fresh = NoContexts
    /\ oplog = NoCalls
    /\ runs = <<>>
    /\ activeFile = None
    /\ currentNotePath = ""
    /\ activeStandaloneSession = None
    /\ permissionVisible = FALSE
    /\ cancelVisible = FALSE
    /\ notices = {}
    /\ sessionsCreated = 0
    /\ sessionFiles = NoSessionFiles
    /\ exchanges = NoExchanges
    /\ backendName = "claude"
    /\ hasSeenInit = FALSE
    /\ rawLines = <<>>
    /\ events = <<>>
    /\ sessionIds = <<>>
    /\ resets = 0
    /\ settings = DefaultSettings
    /\ runnerSettings = NoRunners
    /\ faults = NoFaults
    /\ timeoutSeconds = DefaultTimeout
    /\ timers = NoTimers
    /\ selection = None
    /\ edits = NoEdit
    /\ tooling = NoTooling
    /\ denied = {}
    /\ outputLines = <<>>
    /\ parsed = NoParse
    /\ spawner = NoSpawn

sessOther == <<contexts, disk, fresh, oplog, runs, activeFile, currentNotePath,
               activeStandaloneSession, permissionVisible, cancelVisible,
               notices, backendVars, settingsVars, spawnVars, faultVars, timerVars, editorVars, toolVars, permVars, parserVars>>

\* a run on note n asks for the note's session directory
SessGetSessionInfo(n) ==
    /\ sessionFiles' = getSessionInfo(sessionFiles, n)
    /\ exchanges' = [exchanges EXCEPT !.deleted = @ \ {md5(n)}]
    /\ UNCHANGED <<sessOther, sessionsCreated>>

SessCreateStandalone ==
    /\ sessionsCreated < MaxSessions
    /\ sessionFiles' = createStandaloneSession(sessionFiles,
                                               SessionDirs[sessionsCreated + 1])
    /\ sessionsCreated' = sessionsCreated + 1
    /\ UNCHANGED <<sessOther, exchanges>>

SessSaveMetadata(dir, notePath) ==
    /\ sessionFiles' = saveSessionMetadata(sessionFiles, dir, notePath)
    /\ exchanges' = [exchanges EXCEPT !.deleted = @ \ {dir}]
    /\ UNCHANGED <<sessOther, sessionsCreated>>

SessAddLinkedNote(dir, p, isPrimary) ==
    /\ IsSome(sessionFiles[dir].meta)
          => Len(sessionFiles[dir].meta[1].linkedNotes) < MaxLinks
    /\ sessionFiles' = addLinkedNote(sessionFiles, dir, p, isPrimary)
    /\ UNCHANGED <<sessOther, sessionsCreated, exchanges>>

SessUpdatePaths(oldPath, newPath) ==
    /\ oldPath /= newPath
    /\ sessionFiles' = updateSessionPaths(sessionFiles, oldPath, newPath)
    /\ UNCHANGED <<sessOther, sessionsCreated, exchanges>>

SessSaveHistory(dir) ==
    /\ exchanges.saved[dir] < MaxExchanges
    /\ sessionFiles[dir].exists
    /\ sessionFiles' = saveConversationHistory(sessionFiles, dir,
                                               exchanges.saved[dir])
    /\ exchanges' = [saved |-> [exchanges.saved EXCEPT ![dir] = @ + 1],
                     deleted |-> exchanges.deleted \ {dir}]
    /\ UNCHANGED <<sessOther, sessionsCreated>>

\* deleteSession(sessionDir) returning true
SessDelete(dir) ==
    /\ DirExists(sessionFiles, disk, dir)
    /\ sessionFiles' = deleteSessionFiles(sessionFiles, dir)
    /\ disk' = deleteSessionContext(disk, dir)
    /\ exchanges' = [saved |-> [exchanges.saved EXCEPT ![dir] = 0],
                     deleted |-> exchanges.deleted \cup {dir}]
    /\ UNCHANGED <<contexts, fresh, oplog, runs, activeFile, currentNotePath,
                   activeStandaloneSession, permissionVisible, cancelVisible,
                   notices, backendVars, settingsVars, spawnVars, faultVars, timerVars, editorVars, toolVars, permVars, parserVars, sessionsCreated>>

\* the view shows note n: loadNoteContext creates its context
SessViewNote(n) ==
    /\ contexts' = loadNoteContext(contexts, n).contexts
    /\ UNCHANGED <<disk, fresh, oplog, runs, activeFile, currentNotePath,
                   activeStandaloneSession, permissionVisible, cancelVisible,
                   notices, backendVars, settingsVars, spawnVars, faultVars, timerVars, editorVars, toolVars, permVars, parserVars, sessionsCreated, sessVars>>

\* the view closes: saveAllContexts, nothing else is persisted
onClose ==
    /\ disk' = saveAllContexts(contexts, disk)
    /\ UNCHANGED <<contexts, fresh, oplog, runs, activeFile, currentNotePath,
                   activeStandaloneSession, permissionVisible, cancelVisible,
                   notices, backendVars, settingsVars, spawnVars, faultVars, timerVars, editorVars, toolVars, permVars, parserVars, sessionsCreated, sessVars>>

NotePathArgs == {None} \cup {Some(p) : p \in LinkPaths}

NextSess ==
    \/ \E n \in Notes : SessGetSessionInfo(n)
    \/ SessCreateStandalone
    \/ \E dir \in SessDirNames, np \in NotePathArgs : SessSaveMetadata(dir, np)
    \/ \E dir \in SessDirNames, p \in LinkPaths, isPrimary \in BOOLEAN :
           SessAddLinkedNote(dir, p, isPrimary)
    \/ \E oldPath \in LinkPaths, newPath \in LinkPaths :
           SessUpdatePaths(oldPath, newPath)
    \/ \E dir \in SessDirNames : SessDelete(dir)
    \/ \E n \in Notes : SessViewNote(n)
    \/ onClose

SpecSess == InitSess /\ [][NextSess]_vars

\* the conversation history of the session directories
NextHist ==
    \/ \E n \in Notes : SessGetSessionInfo(n)
    \/ SessCreateStandalone
    \/ \E dir \in SessDirNames : SessSaveHistory(dir)
    \/ \E dir \in SessDirNames : SessDelete(dir)

SpecHist == InitSess /\ [][NextHist]_vars

\* ---------------------------------------------------- the adapters on their own
\* The decoded lines an adapter is handed: the documented shapes of its
\* protocol, the same shapes with fields missing, and values that are no
\* event at all.
StepStart(sessionID) ==
    [RawObject EXCEPT !.type = Some("step_start"), !.sessionID = sessionID]

TextLine(sessionID, part) ==
    [RawObject EXCEPT !.type = Some("text"), !.sessionID = sessionID,
                      !.part = part]

ToolUseLine(part) ==
    [RawObject EXCEPT !.type = Some("tool_use"), !.sessionID = Some("abc"),
                      !.part = part]

StepFinish(part) ==
    [RawObject EXCEPT !.type = Some("step_finish"), !.part = part]

ToolPart(tool, state) ==
    Some([RawPart EXCEPT !.tool = tool, !.state = state])

ToolStates ==
    { None,
      Some(RawState),
      Some([RawState EXCEPT !.status = Some("running"),
                            !.input = Some("in")]),
      Some([RawState EXCEPT !.status = Some("completed"),
                            !.input = Some("in"), !.output = Some("out")]) }

OpenCodeLines ==
    { JsonNull, JsonNumber, RawObject,
      [RawObject EXCEPT !.type = Some("ping"), !.sessionID = Some("abc")],
      StepStart(Some("abc")), StepStart(None),
      TextLine(None, Some([RawPart EXCEPT !.text = Some("hi"),
                                          !.sessionID = Some("abc")])),
      TextLine(Some("abc"), Some([RawPart EXCEPT !.text = Some("hi")])),
      TextLine(Some("abc"), None),
      ToolUseLine(None),
      ToolUseLine(ToolPart(None, Some(RawState))),
      StepFinish(Some([RawPart EXCEPT
          !.tokens = Some([RawTokens EXCEPT !.input = Some(5),
                                            !.output = Some(2)])])),
      StepFinish(None) }
    \cup { ToolUseLine(ToolPart(Some("Read"), st)) : st \in ToolStates }

SystemLine(subtype, session_id) ==
    [RawObject EXCEPT !.type = Some("system"), !.subtype = Some(subtype),
                      !.session_id = session_id]

AssistantLine(message) ==
    [RawObject EXCEPT !.type = Some("assistant"), !.message = message]

ContentArray(items) == Some([content |-> Some([json |-> "array",
                                               items |-> items])])

StreamLine(streamEvent) ==
    [RawObject EXCEPT !.type = Some("stream_event"),
                      !.event = Some(streamEvent)]

BlockStart(type) ==
    StreamLine([RawStreamEvent("content_block_start") EXCEPT
                   !.content_block = Some([type |-> type])])

Delta(type, text) ==
    StreamLine([RawStreamEvent("content_block_delta") EXCEPT
                   !.delta = Some([type |-> type, text |-> text])])

BlockStop == StreamLine(RawStreamEvent("content_block_stop"))

ClaudeLines ==
    { JsonNull, JsonNumber, RawObject,
      [RawObject EXCEPT !.type = Some("ping"), !.session_id = Some("abc")],
      [SystemLine("init", Some("abc")) EXCEPT !.model = Some("sonnet")],
      SystemLine("init", None),
      SystemLine("status", Some("abc")),
      AssistantLine(None),
      AssistantLine(Some([content |-> Some([json |-> "number",
                                            items |-> <<>>])])),
      AssistantLine(ContentArray(<<[RawBlock("thinking") EXCEPT
                                       !.text = Some("hm")]>>)),
      AssistantLine(ContentArray(
          <<RawBlock("text"),
            [RawBlock("text") EXCEPT !.text = Some("a")],
            [RawBlock("tool_use") EXCEPT !.name = Some("Read"),
                                         !.input = Some("in")]>>)),
      [RawObject EXCEPT !.type = Some("tool_use"),
                        !.subtype = Some("input"),
                        !.tool_name = Some("Read"), !.input = Some("in")],
      [RawObject EXCEPT !.type = Some("tool_use"),
                        !.subtype = Some("result"),
                        !.result = Some([json |-> "string", s |-> "out"])],
      [RawObject EXCEPT !.type = Some("result"),
                        !.duration_ms = Some(7),
                        !.usage = Some([RawUsage EXCEPT
                                           !.input_tokens = Some(5),
                                           !.output_tokens = Some(2)])],
      [RawObject EXCEPT !.type = Some("result")],
      BlockStart("thinking"), BlockStart("text"), BlockStop,
      Delta("text_delta", Some("x")), Delta("thinking_delta", Some("y")),
      Delta("input_json_delta", None) }

Lines(backend) == IF backend = "opencode" THEN OpenCodeLines ELSE ClaudeLines

\* createBackend(type): a new adapter, nothing parsed yet
InitBackend ==
    /\ backendName \in BackendNames
    /\ hasSeenInit = FALSE
    /\ rawLines = <<>>
    /\ events = <<>>
    /\ sessionIds = <<>>
    /\ resets = 0
    /\ settings = DefaultSettings
    /\ runnerSettings = NoRunners
    /\ faults = NoFaults
    /\ timeoutSeconds = DefaultTimeout
    /\ timers = NoTimers
    /\ selection = None
    /\ edits = NoEdit
    /\ tooling = NoTooling
    /\ denied = {}
    /\ outputLines = <<>>
    /\ parsed = NoParse
    /\ spawner = NoSpawn
    /\ contexts = NoContexts
    /\ disk = NoDisk
    /\ fresh = NoContexts
    /\ oplog = NoCalls
    /\ runs = <<>>
    /\ activeFile = None
    /\ currentNotePath = ""
    /\ activeStandaloneSession = None
    /\ permissionVisible = FALSE
    /\ cancelVisible = FALSE
    /\ notices = {}
    /\ sessionsCreated = 0
    /\ sessionFiles = NoSessionFiles
    /\ exchanges = NoExchanges

backendOther ==
    <<contexts, disk, viewVars, fresh, oplog, sessVars, settingsVars, spawnVars, faultVars, timerVars, editorVars, toolVars, permVars, parserVars>>

\* one decoded line of the child process: extractSessionId(raw) and
\* parseEvent(raw) are both applied to it
ProcessLine(raw) ==
    /\ Len(rawLines) < MaxEvents
    /\ rawLines' = Append(rawLines, raw)
    /\ sessionIds' = Append(sessionIds, extractSessionId(backendName, raw))
    /\ events' = Append(events, parseEvent(backendName, hasSeenInit, raw))
    /\ hasSeenInit' = hasSeenInitAfter(backendName, hasSeenInit, raw)
    /\ UNCHANGED <<backendName, resets, backendOther>>

\* backend.reset?.() before the next run on the same adapter; the lines
\* recorded are those of the run in progress
Reset ==
    /\ resets < MaxResets
    /\ rawLines # <<>>
    /\ resets' = resets + 1
    /\ hasSeenInit' = reset(backendName, hasSeenInit)
    /\ rawLines' = <<>>
    /\ events' = <<>>
    /\ sessionIds' = <<>>
    /\ UNCHANGED <<backendName, backendOther>>

NextBackend ==
    \/ \E raw \in Lines(backendName) : ProcessLine(raw)
    \/ Reset

SpecBackend == InitBackend /\ [][NextBackend]_vars

\* ------------------------------------------------- the settings broadcast
\* Each context owns a runner that holds a settings object: the one it was
\* constructed with, or the one its updateSettings was last called with.

\* getContext(notePath): a context created on first access gets
\* new ClaudeCodeRunner(this.settings)
RunnersAfterGetContext(ctxs, rs, s, notePath) ==
    IF IsSome(ctxs[notePath]) THEN rs
    ELSE [rs EXCEPT ![notePath] = Some(s)]

\* loadContexts: every context reconstructed from a context.json gets
\* new ClaudeCodeRunner(this.settings)
RunnersAfterLoad(rs, dsk, s) ==
    [k \in AllKeys |->
        IF \E h \in Hashes : /\ IsSome(dsk[h])
                             /\ Truthy(dsk[h][1].notePath)
                             /\ dsk[h][1].notePath = k
        THEN Some(s) ELSE rs[k]]

\* an updateSettings that only stores the settings in the manager
updateSettingsManagerOnly(rs, s) == rs

\* updateSettings: context.runner.updateSettings(settings) for every context
\* of the map
updateSettings(rs, s) ==
    [k \in AllKeys |-> IF IsSome(rs[k]) THEN Some(s) ELSE None]

SetGetContext(k) ==
    /\ oplog.n < MaxOps
    /\ contexts' = getContext(contexts, k)
    /\ runnerSettings' = RunnersAfterGetContext(contexts, runnerSettings,
                                                settings, k)
    /\ oplog' = Called(oplog, "getContext", k)
    /\ UNCHANGED <<settings, disk, fresh, viewVars, sessVars, backendVars, spawnVars, faultVars, timerVars, editorVars, toolVars, permVars, parserVars>>

\* a run starts or ends on a context the caller holds (context.isRunning)
SetRunning(k) ==
    /\ oplog.n < MaxOps
    /\ hasContext(contexts, k)
    /\ contexts' = [contexts EXCEPT
                       ![k] = Some([Ctx(contexts, k) EXCEPT
                                       !.isRunning = ~@])]
    /\ oplog' = Called(oplog, "isRunning", k)
    /\ UNCHANGED <<settingsVars, disk, fresh, viewVars, sessVars,
                   backendVars, spawnVars, faultVars, timerVars, editorVars, toolVars, permVars, parserVars>>

SetSaveAllContexts ==
    /\ oplog.n < MaxOps
    /\ disk' = saveAllContexts(contexts, disk)
    /\ oplog' = Called(oplog, "saveAllContexts", "")
    /\ UNCHANGED <<settingsVars, contexts, fresh, viewVars, sessVars,
                   backendVars, spawnVars, faultVars, timerVars, editorVars, toolVars, permVars, parserVars>>

SetLoadContexts ==
    /\ oplog.n < MaxOps
    /\ contexts' = loadContexts(contexts, disk)
    /\ runnerSettings' = RunnersAfterLoad(runnerSettings, disk, settings)
    /\ oplog' = Called(oplog, "loadContexts", "")
    /\ UNCHANGED <<settings, disk, fresh, viewVars, sessVars, backendVars, spawnVars, faultVars, timerVars, editorVars, toolVars, permVars, parserVars>>

SetUpdateSettings(s) ==
    /\ oplog.n < MaxOps
    /\ settings' = s
    /\ runnerSettings' = updateSettings(runnerSettings, s)
    /\ oplog' = Called(oplog, "updateSettings", "")
    /\ UNCHANGED <<contexts, disk, fresh, viewVars, sessVars, backendVars, spawnVars, faultVars, timerVars, editorVars, toolVars, permVars, parserVars>>

NextSettings ==
    \/ \E k \in AllKeys : SetGetContext(k)
    \/ \E k \in AllKeys : SetRunning(k)
    \/ SetSaveAllContexts
    \/ SetLoadContexts
    \/ \E s \in SettingsValues : SetUpdateSettings(s)

SpecSettings == InitMgr /\ [][NextSettings]_vars

\* ------------------------------------------------ ProcessSpawner on its own
\* One spawn call: the shell environment and the custom variables are what
\* the call finds, the action is the call.
InitSpawn ==
    /\ \E sh \in ShellEnvs, cu \in CustomEnvs :
          spawner = [shellEnv |-> ShellEnvironment(sh),
                     customEnvVars |-> CustomEnvVars(cu),
                     env |-> None]
    /\ contexts = NoContexts
    /\ disk = NoDisk
    /\ fresh = NoContexts
    /\ oplog = NoCalls
    /\ runs = <<>>
    /\ activeFile = None
    /\ currentNotePath = ""
    /\ activeStandaloneSession = None
    /\ permissionVisible = FALSE
    /\ cancelVisible = FALSE
    /\ notices = {}
    /\ sessionsCreated = 0
    /\ sessionFiles = NoSessionFiles
    /\ exchanges = NoExchanges
    /\ backendName = "claude"
    /\ hasSeenInit = FALSE
    /\ rawLines = <<>>
    /\ events = <<>>
    /\ sessionIds = <<>>
    /\ resets = 0
    /\ settings = DefaultSettings
    /\ runnerSettings = NoRunners
    /\ faults = NoFaults
    /\ timeoutSeconds = DefaultTimeout
    /\ timers = NoTimers
    /\ selection = None
    /\ edits = NoEdit
    /\ tooling = NoTooling
    /\ denied = {}
    /\ outputLines = <<>>
    /\ parsed = NoParse

Spawn ==
    /\ spawner.env = None
    /\ spawner' = [spawner EXCEPT
                      !.env = Some(SpawnEnv(spawner.shellEnv,
                                            spawner.customEnvVars))]
    /\ UNCHANGED <<contexts, disk, fresh, oplog, viewVars, sessVars,
                   backendVars, settingsVars, faultVars, timerVars, editorVars, toolVars, permVars, parserVars>>

NextSpawn == Spawn

SpecSpawn == InitSpawn /\ [][NextSpawn]_vars

\* ------------------------------------------------------- the Sessions list
\* listAllSessions: the directories that hold a session metadata file
listAllSessions(files) ==
    {d \in DOMAIN files : files[d].exists /\ IsSome(files[d].meta)}

\* 2643: linkedNotePaths.some(p => runningPaths.includes(p))
isRunningSession(meta, runningPaths) ==
    \E i \in 1..Len(meta.linkedNotes) : meta.linkedNotes[i].path \in runningPaths

\* refreshSessionsList: the is-running class of every listed session
refreshSessionsList(files, ctxs) ==
    [d \in listAllSessions(files) |->
        isRunningSession(files[d].meta[1], getRunningNotePaths(ctxs))]

\* ------------------------------------------ session ids and renamed notes
\* the runner keeps the session id its backend reported
SessSaveSessionId(n, sessionId, backend) ==
    /\ sessionFiles' = saveSessionId(sessionFiles, md5(n), sessionId, backend)
    /\ UNCHANGED <<sessOther, sessionsCreated, exchanges>>

NextIds ==
    \/ \E n \in LinkPaths : SessGetSessionInfo(n)
    \/ \E n \in LinkPaths, sessionId \in SessionIdTexts, backend \in BackendType :
           SessSaveSessionId(n, sessionId, backend)
    \/ \E n \in LinkPaths : SessSaveMetadata(md5(n), Some(n))
    \/ \E oldPath \in LinkPaths, newPath \in LinkPaths :
           SessUpdatePaths(oldPath, newPath)
    \/ \E dir \in NoteDirs : SessDelete(dir)

SpecIds == InitSess /\ [][NextIds]_vars

\* ------------------------------------------------- the timeout of a run
\* The view with runners whose child process never exits: a run ends when its
\* timeout fires or when the user cancels it.  No note is opened, the runs
\* are those of standalone sessions.

\* parseInt(value) of the texts typed into the timeout field, None for NaN
TimeoutTexts == {"0", "300", "-1", "abc"}
parseInt(value) ==
    CASE value = "0" -> Some(0)
      [] value = "300" -> Some(300)
      [] value = "-1" -> Some(-1)
      [] OTHER -> None

\* the onChange handler of the timeout field
onTimeoutChange(value) ==
    LET num == parseInt(value)
    IN /\ timeoutSeconds' = (IF IsSome(num) /\ num[1] >= 0 THEN num[1]
                             ELSE timeoutSeconds)
       /\ UNCHANGED <<contexts, disk, fresh, oplog, viewVars, sessVars,
                      backendVars, settingsVars, spawnVars, faultVars, timers, editorVars, toolVars, permVars, parserVars>>

\* the timer a run starts when its child is spawned: none for timeout 0
StartTimer(seconds, ctx) ==
    [NoTimer EXCEPT !.state = IF seconds > 0 THEN "armed" ELSE "off",
                    !.seconds = seconds, !.ctx = ctx]

\* a timer that starts over with every line of output
AfterLineRestarts(timer) ==
    [timer EXCEPT !.state = IF @ = "due" THEN "armed" ELSE @]

\* the countdown of a run does not depend on its output
AfterLine(timer) ==
    timer

timerOther == <<contexts, disk, fresh, oplog, viewVars, sessVars, backendVars,
                settingsVars, spawnVars, faultVars, timeoutSeconds, editorVars, toolVars, permVars, parserVars>>

\* the child of run r is spawned
Spawned(r) ==
    /\ r \in InFlight(runs)
    /\ timers[r].state = "idle"
    /\ timers' = [timers EXCEPT ![r] = StartTimer(timeoutSeconds, runs[r].ctx)]
    /\ UNCHANGED timerOther

\* the child of run r writes one more line; the lines after the first
\* MaxLines are delivered as well and leave the state of the model as it is
NeverExitsOnLine(r) ==
    /\ r \in InFlight(runs)
    /\ timers[r].state \in {"off", "armed", "due"}
    /\ ~runs[r].terminated
    /\ contexts' = (IF runs[r].sent < MaxLines
                    THEN appendOutputToNote(contexts, runs[r].notePath,
                                            currentNotePath,
                                            LineOf(r, runs[r].sent + 1))
                    ELSE contexts)
    /\ runs' = [runs EXCEPT ![r].sent = IF @ < MaxLines THEN @ + 1 ELSE @]
    /\ timers' = [timers EXCEPT ![r] = AfterLine(@)]
    /\ notices' = {}
    /\ UNCHANGED <<disk, currentNotePath, activeStandaloneSession, activeFile,
                   permissionVisible, cancelVisible, sessionsCreated, fresh,
                   oplog, sessVars, backendVars, settingsVars, spawnVars,
                   faultVars, timeoutSeconds, editorVars, toolVars, permVars, parserVars>>

\* the configured time has passed since the child of r was spawned
TimePasses(r) ==
    /\ r \in InFlight(runs)
    /\ timers[r].state = "armed"
    /\ timers' = [timers EXCEPT ![r].state = "due"]
    /\ UNCHANGED timerOther

\* the timeout callback of r runs and terminates the child
TimeoutFires(r) ==
    /\ r \in InFlight(runs)
    /\ timers[r].state = "due"
    /\ timers' = [timers EXCEPT ![r].state = "fired"]
    /\ UNCHANGED timerOther

\* runner.run of r resolves once the child was terminated, by the timeout or
\* by the user, and handleRunClaudeCode continues
NeverExitsResolves(r) ==
    /\ r \in InFlight(runs)
    /\ timers[r].state = "fired" \/ runs[r].terminated
    /\ ResumeRun(r, IF runs[r].terminated THEN RespCancelled ELSE RespTimeout,
                 FALSE)

NextTimeout ==
    \/ handleRunClaudeCode
    \/ \E r \in 1..MaxRuns : Spawned(r)
    \/ \E r \in 1..MaxRuns : NeverExitsOnLine(r)
    \/ \E r \in 1..MaxRuns : TimePasses(r)
    \/ \E r \in 1..MaxRuns : TimeoutFires(r)
    \/ \E r \in 1..MaxRuns : NeverExitsResolves(r)
    \/ handleCancel
    \/ \E value \in TimeoutTexts : onTimeoutChange(value)

\* timers fire and resolved promises are continued by the event loop
TimeoutFairness ==
    \A r \in 1..MaxRuns :
        /\ WF_vars(TimePasses(r))
        /\ WF_vars(TimeoutFires(r))
        /\ WF_vars(NeverExitsResolves(r))

SpecTimeout == Init /\ [][NextTimeout]_vars /\ TimeoutFairness

\* ------------------------------------------ applying changes to the editor
\* The view with a user who selects text in the editor and opens a new
\* standalone session while runs are in flight.

Selections == {None, Some("selected")}

\* the user selects text in the editor, or drops the selection
SelectText(selectedText) ==
    /\ selection /= selectedText
    /\ selection' = selectedText
    /\ UNCHANGED <<contexts, disk, fresh, oplog, viewVars, sessVars, backendVars,
                   settingsVars, spawnVars, faultVars, timerVars, edits, toolVars, permVars, parserVars>>

\* the 'New session' button
createNewSession ==
    LET sessionDir == SessionDirs[sessionsCreated + 1]
        cur == StandaloneKey(sessionDir)
    IN /\ sessionsCreated < MaxSessions
       /\ sessionFiles' = createStandaloneSession(sessionFiles, sessionDir)
       /\ sessionsCreated' = sessionsCreated + 1
       /\ activeStandaloneSession' = Some(sessionDir)
       /\ currentNotePath' = cur
       /\ contexts' = updateCurrentNoteLabel(contexts, cur, Some(sessionDir))
       /\ notices' = {Notice("sessionCreated")}
       /\ UNCHANGED <<disk, runs, activeFile, permissionVisible, cancelVisible,
                      fresh, oplog, exchanges, backendVars, settingsVars,
                      spawnVars, faultVars, timerVars, editorVars, toolVars, permVars, parserVars>>

\* runner.run of r, started by handleRunClaudeCode, resolves
RunCompletes(r) ==
    \E response \in Responses, autoAccept \in BOOLEAN :
        ResumeRun(r, response, autoAccept)

NextApply ==
    \/ handleRunClaudeCode
    \/ \E r \in 1..MaxRuns : RunCompletes(r)
    \/ ActiveLeafChange
    \/ createNewSession
    \/ \E selectedText \in Selections : SelectText(selectedText)

SpecApply == Init /\ [][NextApply]_vars

\* ----------------------------------------------------- tool start and result
\* The view with runs that report tool activity: every line is a tool start
\* or a tool completion.

ToolLineKinds == {"start", "complete"}

\* line i of run r, a tool activity line (odd index) of the given kind
ToolLineOf(r, i, kind) == [run |-> r, idx |-> 2 * i - 1, tool |-> kind]

\* text.includes('Using tool:') and the other start markers
isToolStart(text) == text.tool = "start"

\* text.includes('complete') and the other completion markers
isToolComplete(text) == text.tool = "complete"

\* 918-992: what appendOutputToNote does for the view when the line is of the
\* note on display; the start time of a tool is kept as the note path of the
\* run that started it
TrackToolTiming(tl, notePath, cur, text) ==
    LET agentStep == parseAgentActivity(text)
    IN IF notePath /= cur \/ ~IsSome(agentStep) THEN tl
       ELSE IF isToolStart(text)
       THEN [tl EXCEPT
                !.toolStartTimes =
                    {e \in @ : e.key /= agentStep[1].key}
                        \cup {[key |-> agentStep[1].key, at |-> notePath]},
                !.lastToolKey = Some(agentStep[1].key)]
       ELSE IF /\ isToolComplete(text)
               /\ IsSome(tl.lastToolKey)
               /\ \E e \in tl.toolStartTimes : e.key = tl.lastToolKey[1]
       THEN LET started == CHOOSE e \in tl.toolStartTimes :
                               e.key = tl.lastToolKey[1]
            IN [toolStartTimes |-> tl.toolStartTimes \ {started},
                lastToolKey |-> None,
                matched |-> Some([completed |-> notePath,
                                  started |-> started.at])]
       ELSE tl

\* the onLine callback of run r delivers a tool activity line
OnToolLine(r, kind) ==
    LET text == ToolLineOf(r, runs[r].sent + 1, kind)
    IN /\ r \in InFlight(runs)
       /\ runs[r].sent < MaxLines
       /\ contexts' = appendOutputToNote(contexts, runs[r].notePath,
                                         currentNotePath, text)
       /\ tooling' = TrackToolTiming(tooling, runs[r].notePath,
                                     currentNotePath, text)
       /\ runs' = [runs EXCEPT ![r].sent = @ + 1]
       /\ notices' = {}
       /\ UNCHANGED <<disk, currentNotePath, activeStandaloneSession,
                      activeFile, permissionVisible, cancelVisible,
                      sessionsCreated, fresh, oplog, sessVars, backendVars,
                      settingsVars, spawnVars, faultVars, timerVars,
                      editorVars, permVars, parserVars>>

NextTools ==
    \/ handleRunClaudeCode
    \/ \E r \in 1..MaxRuns, kind \in ToolLineKinds : OnToolLine(r, kind)
    \/ ActiveLeafChange
    \/ createNewSession

SpecTools == Init /\ [][NextTools]_vars

\* ------------------------------------------------- denying a permission
\* The Deny button of the permission approval section.

\* handleDenyPermission
handleDenyPermission ==
    /\ permissionVisible
    \* 2389: hidePermissionApprovalSection
    /\ permissionVisible' = FALSE
    /\ notices' = {Notice("permissionDenied")}
    /\ denied' = denied \cup {[key |-> currentNotePath, runs |-> Len(runs),
                              inFlight |-> InFlight(runs)]}
    /\ UNCHANGED <<contexts, disk, runs, currentNotePath,
                   activeStandaloneSession, activeFile, cancelVisible,
                   sessionsCreated, fresh, oplog, sessVars, backendVars,
                   settingsVars, spawnVars, faultVars, timerVars, editorVars,
                   toolVars, parserVars>>

NextDeny ==
    \/ handleRunClaudeCode
    \/ \E r \in 1..MaxRuns : RunResolves(r)
    \/ handleApprovePermission
    \/ handleDenyPermission
    \/ ActiveLeafChange
    \/ createNewSession

SpecDeny == Init /\ [][NextDeny]_vars

\* ---------------------------------------------------------- ResponseParser
\* parseOutput on a list of output lines. A text is the sequence of its
\* characters; a line is what JSON.parse makes of it.

Undefined == <<"u", "n", "d", "e", "f", "i", "n", "e", "d">>
Whitespace == {" ", "\n"}

\* String.prototype.trim on a sequence of characters
RECURSIVE trimStart(_)
trimStart(text) ==
    IF text /= <<>> /\ Head(text) \in Whitespace THEN trimStart(Tail(text))
    ELSE text

RECURSIVE trimEnd(_)
trimEnd(text) ==
    IF text /= <<>> /\ text[Len(text)] \in Whitespace
    THEN trimEnd(SubSeq(text, 1, Len(text) - 1))
    ELSE text

trimText(text) == trimEnd(trimStart(text))

\* a decoded StreamEvent; a field the line does not carry is None
StreamEvent(type, event_type, delta, content, usage, part) ==
    [json |-> "object", type |-> type, event_type |-> event_type,
     delta |-> delta, content |-> content, usage |-> usage, part |-> part]

DeltaEvent(deltaType, text) ==
    StreamEvent("stream_event", "content_block_delta",
                Some([type |-> deltaType, text |-> text]), None, None, None)

AssistantEvent(content) ==
    StreamEvent("assistant", "", None, Some(content), None, None)

ResultEvent(usage) ==
    StreamEvent("result", "", None, None, usage, None)

TextEvent(text) ==
    StreamEvent("text", "", None, None, None,
                Some([text |-> text, tokens |-> None]))

StepFinishEvent(tokens) ==
    StreamEvent("step_finish", "", None, None, None,
                Some([text |-> <<>>, tokens |-> Some(tokens)]))

\* a line JSON.parse rejects, and lines that decode to null and to a number
InvalidLine == [json |-> "invalid"]
NullLine == [json |-> "null"]
NumberLine == [json |-> "number"]

TextBlock(text) == [type |-> "text", text |-> Some(text)]
ToolUseBlock == [type |-> "tool_use", text |-> None]

OutputLineValues ==
    {InvalidLine, NullLine, NumberLine,
     DeltaEvent("text_delta", <<"a">>),
     DeltaEvent("text_delta", <<>>),
     DeltaEvent("input_json_delta", <<"b">>),
     AssistantEvent(<<TextBlock(<<"a">>)>>),
     AssistantEvent(<<ToolUseBlock, TextBlock(<<"b">>)>>),
     ResultEvent(Some([input_tokens |-> Some(1), output_tokens |-> None])),
     TextEvent(<<" ", "b">>),
     StepFinishEvent([input |-> None, output |-> Some(2)])}

TokenUsage(input, output) ==
    [inputTokens |-> OrZero(input), outputTokens |-> OrZero(output),
     totalTokens |-> OrZero(input) + OrZero(output)]

\* 70-76: the text blocks of a complete assistant message
RECURSIVE collectBlocks(_, _)
collectBlocks(assistantText, content) ==
    IF content = <<>> THEN assistantText
    ELSE LET block == Head(content)
             text == IF IsSome(block.text) THEN block.text[1] ELSE Undefined
         IN collectBlocks(IF block.type = "text"
                          THEN assistantText \o text \o <<"\n">>
                          ELSE assistantText,
                          Tail(content))

\* 58-104: the body of the try block on a decoded object
collectEvent(acc, event) ==
    LET \* 61-67
        a1 == IF /\ event.type = "stream_event"
                 /\ event.event_type = "content_block_delta"
                 /\ IsSome(event.delta)
                 /\ event.delta[1].type = "text_delta"
                 /\ event.delta[1].text /= <<>>
              THEN [acc EXCEPT !.assistantText = @ \o event.delta[1].text]
              ELSE acc
        \* 70-78
        a2 == IF event.type = "assistant" /\ IsSome(event.content)
              THEN [a1 EXCEPT !.assistantText =
                                  collectBlocks(@, event.content[1])]
              ELSE a1
        \* 81-89
        a3 == IF event.type = "result" /\ IsSome(event.usage)
              THEN [a2 EXCEPT !.tokenUsage =
                       Some(TokenUsage(event.usage[1].input_tokens,
                                       event.usage[1].output_tokens))]
              ELSE a2
        \* 92-94
        a4 == IF /\ event.type = "text" /\ IsSome(event.part)
                 /\ event.part[1].text /= <<>>
              THEN [a3 EXCEPT !.assistantText = @ \o event.part[1].text]
              ELSE a3
        \* 97-104
        a5 == IF /\ event.type = "step_finish" /\ IsSome(event.part)
                 /\ IsSome(event.part[1].tokens)
              THEN [a4 EXCEPT !.tokenUsage =
                       Some(TokenUsage(event.part[1].tokens[1].input,
                                       event.part[1].tokens[1].output))]
              ELSE a4
    IN a5

\* a variant of the loop body in which a line that does not decode is taken
\* for text
parseLineAsText(acc, line) ==
    IF line.json = "object" THEN collectEvent(acc, line)
    ELSE [acc EXCEPT !.assistantText = @ \o <<"?">>]

\* 57-108: one round of the loop. JSON.parse throws on an invalid line and
\* event.type throws on null; the catch skips the line. Every property read
\* on a number is undefined, so no branch is taken.
parseLine(acc, line) ==
    IF line.json = "object" THEN collectEvent(acc, line)
    ELSE acc

RECURSIVE parseFrom(_, _)
parseFrom(acc, lines) ==
    IF lines = <<>> THEN acc
    ELSE parseFrom(parseLine(acc, Head(lines)), Tail(lines))

parseOutput(lines) ==
    LET acc == parseFrom([assistantText |-> <<>>, tokenUsage |-> None], lines)
    IN [assistantText |-> trimText(acc.assistantText),
        tokenUsage |-> acc.tokenUsage]

RECURSIVE OutputsUpTo(_)
OutputsUpTo(n) ==
    IF n = 0 THEN {<<>>}
    ELSE LET shorter == OutputsUpTo(n - 1)
         IN shorter \cup {Append(s, l) : s \in {x \in shorter : Len(x) = n - 1},
                                         l \in OutputLineValues}

InitParser ==
    /\ outputLines \in OutputsUpTo(MaxOutput)
    /\ parsed = NoParse
    /\ spawner = NoSpawn
    /\ contexts = NoContexts
    /\ disk = NoDisk
    /\ fresh = NoContexts
    /\ oplog = NoCalls
    /\ runs = <<>>
    /\ activeFile = None
    /\ currentNotePath = ""
    /\ activeStandaloneSession = None
    /\ permissionVisible = FALSE
    /\ cancelVisible = FALSE
    /\ notices = {}
    /\ sessionsCreated = 0
    /\ sessionFiles = NoSessionFiles
    /\ exchanges = NoExchanges
    /\ backendName = "claude"
    /\ hasSeenInit = FALSE
    /\ rawLines = <<>>
    /\ events = <<>>
    /\ sessionIds = <<>>
    /\ resets = 0
    /\ settings = DefaultSettings
    /\ runnerSettings = NoRunners
    /\ faults = NoFaults
    /\ timeoutSeconds = DefaultTimeout
    /\ timers = NoTimers
    /\ selection = None
    /\ edits = NoEdit
    /\ tooling = NoTooling
    /\ denied = {}

\* ResponseParser.parseOutput(outputLines)
ParseOutput ==
    /\ parsed = NoParse
    /\ parsed' = Some(parseOutput(outputLines))
    /\ UNCHANGED <<outputLines, contexts, disk, fresh, oplog, viewVars,
                   sessVars, backendVars, settingsVars, spawnVars, faultVars,
                   timerVars, editorVars, toolVars, permVars>>

NextParser == ParseOutput

SpecParser == InitParser /\ [][NextParser]_vars

\* --------------------------------------------- reloading running contexts
\* The manager as above, with a caller that also starts and finishes runs on
\* the contexts it holds, as the view does.

\* the caller starts a run on the context: handleRunClaudeCode 708-746
MgrRunStarts(k) ==
    LET c == Ctx(contexts, k)
    IN /\ oplog.n < MaxOps
       /\ hasContext(contexts, k)
       /\ ~c.isRunning
       /\ contexts' = [contexts EXCEPT ![k] =
             Some([c EXCEPT !.isRunning = TRUE,
                            !.currentRequest =
                                Some(Request("p", Some(k), None, FALSE))])]
       /\ oplog' = Called(oplog, "run", k)
       /\ UNCHANGED <<disk, fresh>>
       /\ UNCHANGED <<viewVars, sessVars, backendVars, settingsVars, spawnVars,
                      faultVars, timerVars, editorVars, toolVars, permVars,
                      parserVars>>

\* the run of the context resolves: handleRunClaudeCode 774-777
MgrRunEnds(k, response) ==
    /\ oplog.n < MaxOps
    /\ hasContext(contexts, k)
    /\ Ctx(contexts, k).isRunning
    /\ contexts' = FinishRun(contexts, k, response)
    /\ oplog' = Called(oplog, "response", k)
    /\ UNCHANGED <<disk, fresh>>
    /\ UNCHANGED <<viewVars, sessVars, backendVars, settingsVars, spawnVars,
                   faultVars, timerVars, editorVars, toolVars, permVars,
                   parserVars>>

NextReload ==
    \/ \E k \in AllKeys : MgrGetContext(k)
    \/ \E k \in AllKeys : MgrRecordExchange(k)
    \/ \E k \in AllKeys : MgrRunStarts(k)
    \/ \E k \in AllKeys : MgrRunEnds(k, RespPermission)
    \/ \E k \in AllKeys : MgrSaveContext(k)
    \/ MgrSaveAllContexts
    \/ MgrLoadContexts
    \/ \E k \in AllKeys : MgrClearHistory(k)

SpecReload == InitMgr /\ [][NextReload]_vars

\* ------------------------------------------------------------- properties
Running(ctxs, k) == hasContext(ctxs, k) /\ Ctx(ctxs, k).isRunning

LinesOf(ctxs, k) == IF hasContext(ctxs, k) THEN Ctx(ctxs, k).outputLines ELSE <<>>

\* C1: at every moment each context has at most one run in flight, a run
\* being in flight from the call of runner.run until the call resolves.
OneRunInFlightPerContext ==
    \A k \in AllKeys : Cardinality(InFlightOn(runs, k)) <= 1

\* C2: handleRunClaudeCode on a context whose isRunning is true raises the
\* 'already processing' notice, does not call runner.run and leaves the
\* context (request, output lines, running flag) as it was.
RunRejectedWhileRunning ==
    [][(handleRunClaudeCode /\ Running(contexts, currentNotePath))
          => /\ notices' = {Notice("alreadyProcessing")}
             /\ runs' = runs
             /\ contexts' = contexts]_vars

RejectedRunSeen ==
    /\ notices = {Notice("alreadyProcessing")}
    /\ Running(contexts, currentNotePath)
    /\ InFlightOn(runs, currentNotePath) /= {}

\* C3: each line a run's onLine callback delivers is appended once, at the
\* end, to the outputLines of the context keyed by the note path captured when
\* the run started, and no other context changes, whatever note is on display.
LinesGoToRunContext ==
    [][\A r \in InFlight(runs) :
          (runs'[r].status = "inflight" /\ runs'[r].sent = runs[r].sent + 1)
             => LET k == runs[r].notePath
                IN /\ hasContext(contexts', k)
                   /\ Ctx(contexts', k).outputLines =
                        Append(LinesOf(contexts, k), LineOf(r, runs[r].sent + 1))
                   /\ \A j \in AllKeys \ {k} : contexts'[j] = contexts[j]]_vars

InterleavedLinesSeen ==
    \E r, q \in InFlight(runs) :
        /\ runs[r].notePath /= runs[q].notePath
        /\ runs[r].sent >= 2
        /\ runs[q].sent >= 1
        /\ currentNotePath /= runs[r].notePath
        /\ LinesOf(contexts, runs[r].notePath) = <<LineOf(r, 1), LineOf(r, 2)>>
        /\ LinesOf(contexts, runs[q].notePath) = <<LineOf(q, 1)>>

\* C4: a run request is rejected as 'already processing' only when the
\* context it is made on is running; runs on other contexts do not reject it,
\* so several contexts run at the same time.
RunRejectedOnlyByOwnContext ==
    [][(handleRunClaudeCode /\ ~Running(contexts, currentNotePath))
          => Notice("alreadyProcessing") \notin notices']_vars

TwoContextsRunning ==
    /\ getRunningCount(contexts) >= 2
    /\ \E r, q \in InFlight(runs) :
           /\ runs[r].ctx /= runs[q].ctx
           /\ Running(contexts, runs[r].ctx)
           /\ Running(contexts, runs[q].ctx)

CancelFlipsFlagAtOnce ==
    [][handleCancel
          => /\ ~Running(contexts', currentNotePath)
             /\ InFlightOn(runs, currentNotePath) /= {}
                  => \E r \in InFlightOn(runs, currentNotePath) :
                         /\ runs'[r].terminated
                         /\ runs'[r].status = "inflight"]_vars

CancelledRunStillInFlight ==
    /\ notices = {Notice("cancelled")}
    /\ hasContext(contexts, currentNotePath)
    /\ ~Ctx(contexts, currentNotePath).isRunning
    /\ \E r \in InFlightOn(runs, currentNotePath) : runs[r].terminated

\* C7: when a cancelled run resolves while a later run of the same context
\* is in flight, the context's isRunning and currentResponse stay as the
\* later run left them.
LateCompletionSparesNewRun ==
    [][\A r \in InFlight(runs) :
          (/\ runs[r].terminated
           /\ runs'[r].status = "resolved"
           /\ \E q \in InFlightOn(runs, runs[r].ctx) :
                  q > r /\ ~runs[q].terminated)
             => /\ Ctx(contexts', runs[r].ctx).isRunning
                  = Ctx(contexts, runs[r].ctx).isRunning
                /\ Ctx(contexts', runs[r].ctx).currentResponse
                  = Ctx(contexts, runs[r].ctx).currentResponse]_vars

\* C8: a failure notice is raised only for a spawn error or a timeout; a
\* cancelled run raises none.
FailureNoticeOnlyForSpawnAndTimeout ==
    \A n \in notices : n.id = "failed" => n.arg \in {"spawn", "timeout"}

\* C9: after saveContext or saveAllContexts, loadContexts on a fresh manager
\* holds every saved context under its key with the same history length,
\* number of output lines and session id.
SavedKeys ==
    IF oplog.prev.op = "saveContext" THEN {oplog.prev.key}
    ELSE IF oplog.prev.op = "saveAllContexts" THEN AllKeys
    ELSE {}

SaveThenLoadRestores ==
    oplog.last.op = "loadContexts"
       => \A k \in SavedKeys :
              hasContext(contexts, k)
                 => /\ hasContext(fresh, k)
                    /\ Len(Ctx(fresh, k).history) = Len(Ctx(contexts, k).history)
                    /\ Len(Ctx(fresh, k).outputLines)
                         = Len(Ctx(contexts, k).outputLines)
                    /\ Ctx(fresh, k).sessionId = Ctx(contexts, k).sessionId

\* C10: clearHistory leaves history, outputLines and agentSteps of the
\* context empty, changes nothing when the key has no context, and a second
\* call right after the first changes nothing.
ClearHistoryIdempotent ==
    [][\A k \in AllKeys :
          (oplog'.n = oplog.n + 1 /\ oplog'.last = Op("clearHistory", k))
             => /\ hasContext(contexts', k) = hasContext(contexts, k)
                /\ hasContext(contexts, k)
                     => /\ Ctx(contexts', k).history = <<>>
                        /\ Ctx(contexts', k).outputLines = <<>>
                        /\ Ctx(contexts', k).agentSteps = <<>>
                /\ oplog.last = Op("clearHistory", k)
                     => contexts' = contexts]_vars

\* clearHistory was called twice in a row on a context that had been saved
\* with a history
ClearedTwiceSeen ==
    \E k \in AllKeys :
        /\ oplog.prev = Op("clearHistory", k)
        /\ oplog.last = Op("clearHistory", k)
        /\ hasContext(contexts, k)
        /\ IsSome(disk[md5(k)])
        /\ Len(disk[md5(k)][1].history) >= 1
        /\ Len(disk[md5(k)][1].agentSteps) >= 1

\* C11: a session's linkedNotes list never has more than one entry with
\* isPrimary true, and after addLinkedNote(dir, p, true) on a session with
\* metadata exactly one entry is primary and its path is p.
Primaries(files, dir) ==
    {i \in 1..Len(files[dir].meta[1].linkedNotes) :
        files[dir].meta[1].linkedNotes[i].isPrimary}

AtMostOnePrimary ==
    [][\A dir \in SessDirNames :
          /\ IsSome(sessionFiles'[dir].meta)
                => Cardinality(Primaries(sessionFiles', dir)) <= 1
          /\ \A p \in LinkPaths :
                (/\ IsSome(sessionFiles[dir].meta)
                 /\ sessionFiles' = addLinkedNote(sessionFiles, dir, p, TRUE))
                   => /\ Cardinality(Primaries(sessionFiles', dir)) = 1
                      /\ \A i \in Primaries(sessionFiles', dir) :
                            sessionFiles'[dir].meta[1].linkedNotes[i].path = p]_vars

\* the primary flag has moved from the first linked note to a later one
PrimaryMovedSeen ==
    \E dir \in SessDirNames :
        /\ IsSome(sessionFiles[dir].meta)
        /\ Len(sessionFiles[dir].meta[1].linkedNotes) >= 2
        /\ sessionFiles[dir].meta[1].linkedNotes[1].path = "a.md"
        /\ ~sessionFiles[dir].meta[1].linkedNotes[1].isPrimary
        /\ sessionFiles[dir].meta[1].linkedNotes[2].path = "b.md"
        /\ sessionFiles[dir].meta[1].linkedNotes[2].isPrimary
        /\ sessionFiles[dir].meta[1].notePath = Some("b.md")

\* C12: the stored conversation history of a session holds at most 20
\* messages, and they are the most recent ones in their original order, a
\* user message followed by the assistant message of the same exchange.
HistoryIsRecentWindow ==
    \A dir \in SessDirNames :
        IsSome(sessionFiles[dir].history)
           => LET h == sessionFiles[dir].history[1]
                  n == 2 * exchanges.saved[dir]
              IN /\ Len(h) <= 20
                 /\ Len(h) = (IF n > 20 THEN 20 ELSE n)
                 /\ \A i \in 1..Len(h) : h[i] = HistoryMessage(n - Len(h) + i)
                 /\ \A i \in 1..Len(h) :
                       i % 2 = 1 => /\ h[i].role = "user"
                                    /\ h[i + 1].role = "assistant"
                                    /\ h[i + 1].content = h[i].content

\* twelve exchanges were saved: the two oldest are gone
HistoryCappedSeen ==
    \E dir \in SessDirNames :
        /\ exchanges.saved[dir] = 12
        /\ IsSome(sessionFiles[dir].history)
        /\ Len(sessionFiles[dir].history[1]) = 20
        /\ sessionFiles[dir].history[1][1] = HistoryMessage(5)
        /\ sessionFiles[dir].history[1][20] = HistoryMessage(24)

\* C13: once deleteSession(dir) has succeeded, the directory holds no
\* persisted state until a new run on that conversation; saving the contexts
\* when the view closes writes nothing into it.
DeletedStaysDeleted ==
    \A dir \in exchanges.deleted : ~DirExists(sessionFiles, disk, dir)

\* ---- the adapters
IsObject(raw) == raw.json = "object"

HasType(raw, type) == IsObject(raw) /\ raw.type = Some(type)

\* the lines of the scenario: step_start, text, step_finish
ScenarioLines ==
    <<StepStart(Some("abc")),
      TextLine(None, Some([RawPart EXCEPT !.text = Some("hi"),
                                          !.sessionID = Some("abc")])),
      StepFinish(Some([RawPart EXCEPT
          !.tokens = Some([RawTokens EXCEPT !.input = Some(5),
                                            !.output = Some(2)])]))>>

ScenarioInit ==
    [StandardEvent EXCEPT !.type = "init", !.sessionId = Some("abc")]

ScenarioText ==
    [StandardEvent EXCEPT !.type = "text", !.text = Some("hi"),
                          !.isStreaming = Some(TRUE)]

\* C14: a fresh or reset OpenCode adapter that parses the lines step_start
\* (sessionID abc), text (part.text hi) and step_finish (tokens input 5,
\* output 2) yields init{sessionId: abc}, text{text: hi, isStreaming: true}
\* and step_complete{cost: 0, tokens: {input: 5, output: 2, cached: 0}}.
ScenarioYieldsSequence ==
    (backendName = "opencode" /\ rawLines = ScenarioLines)
       => events =
            <<ScenarioInit, ScenarioText,
              [StandardEvent EXCEPT
                  !.type = "step_complete",
                  !.cost = Some(0),
                  !.tokens = Some([input |-> Some(5), output |-> Some(2),
                                   cached |-> Some(0)])]>>

\* the scenario was parsed by an adapter that had been used and reset before
ScenarioParsedAfterReset ==
    /\ backendName = "opencode"
    /\ resets = 1
    /\ rawLines = ScenarioLines
    /\ Len(events) = 3

\* C14 as stated: the third event is exactly step_complete{tokens: {input: 5,
\* output: 2}}, with no other field.
ScenarioYieldsExactly ==
    (backendName = "opencode" /\ rawLines = ScenarioLines)
       => events =
            <<ScenarioInit, ScenarioText,
              [StandardEvent EXCEPT
                  !.type = "step_complete",
                  !.tokens = Some([input |-> Some(5), output |-> Some(2),
                                   cached |-> None])]>>

\* C15: of the step_start lines an OpenCode adapter parses between two
\* resets (or since it was created), the first yields init and every later
\* one null, so there is at most one init per run, also on an adapter that
\* was reset after an earlier run.
StepStarts == {i \in 1..Len(rawLines) : HasType(rawLines[i], "step_start")}

OneInitPerRun ==
    backendName = "opencode"
       => /\ \A i \in StepStarts :
                IF \A j \in StepStarts : j >= i
                THEN events[i].ret = "event" /\ events[i].type = "init"
                ELSE events[i] = Null
          /\ Cardinality({i \in 1..Len(events) :
                             events[i].ret = "event"
                             /\ events[i].type = "init"}) <= 1

\* after a reset, a step_start yielded init and a later step_start null
InitAgainAfterReset ==
    /\ backendName = "opencode"
    /\ resets = 1
    /\ \E i, j \in StepStarts :
          /\ i < j
          /\ events[i].ret = "event" /\ events[i].type = "init"
          /\ events[j] = Null

\* C16: extractSessionId returns a string for an init-equivalent line that
\* carries a session id (system/init for Claude, step_start for OpenCode) and
\* null for a line of any other type.
InitType(backend) == IF backend = "opencode" THEN "step_start" ELSE "system"

SessionIdOnlyFromInit ==
    \A i \in 1..Len(rawLines) :
        LET raw == rawLines[i]
        IN  /\ (/\ HasType(raw, InitType(backendName))
                /\ backendName = "claude" => raw.subtype = Some("init")
                /\ TruthyOpt(IF backendName = "opencode"
                             THEN raw.sessionID ELSE raw.session_id))
                  => sessionIds[i].ret = "string"
            /\ (IsObject(raw) /\ IsSome(raw.type)
                /\ raw.type # Some(InitType(backendName)))
                  => sessionIds[i] = NullId

\* C17: parseEvent returns null, and throws nothing, for JSON null, for a
\* value that is no object, for an object without a type or with an unknown
\* one, and for an object of a known type that has no other field.
KnownTypes(backend) ==
    IF backend = "opencode"
    THEN {"step_start", "text", "tool_use", "step_finish"}
    ELSE {"system", "assistant", "tool_use", "result", "stream_event"}

Unrecognized(backend, raw) ==
    \/ ~IsObject(raw)
    \/ ~IsSome(raw.type)
    \/ raw.type[1] \notin KnownTypes(backend)
    \/ raw = [RawObject EXCEPT !.type = raw.type]
    \/ /\ HasType(raw, "assistant")
       /\ IsSome(raw.message)
       /\ IsSome(raw.message[1].content)
       /\ raw.message[1].content[1].json # "array"

UnrecognizedParsesToNull ==
    \A i \in 1..Len(rawLines) :
        Unrecognized(backendName, rawLines[i]) => events[i] = Null

\* C18: for a tool_use line the OpenCode adapter returns null exactly when
\* part is absent; otherwise one event, which is tool_result carrying
\* state.input and state.output exactly when part.state.status is
\* 'completed', and tool_start in every other case, state absent included.
Completed(part) ==
    IsSome(part.state) /\ part.state[1].status = Some("completed")

ToolUseByStatus ==
    backendName = "opencode"
       => \A i \in 1..Len(rawLines) :
             HasType(rawLines[i], "tool_use")
                => LET part == rawLines[i].part
                       ev == events[i]
                   IN  /\ (ev = Null) <=> ~IsSome(part)
                       /\ IsSome(part)
                             => /\ ev.ret = "event"
                                /\ ev.type \in {"tool_result", "tool_start"}
                                /\ (ev.type = "tool_result")
                                      <=> Completed(part[1])
                                /\ Completed(part[1])
                                      => /\ ev.toolInput = part[1].state[1].input
                                         /\ ev.toolOutput = part[1].state[1].output
                                         /\ IsSome(ev.toolOutput)

\* a completed tool, a running tool and a tool without state were parsed
ToolUseBranchesSeen ==
    /\ backendName = "opencode"
    /\ Len(rawLines) = 3
    /\ HasType(rawLines[1], "tool_use") /\ IsSome(rawLines[1].part)
    /\ Completed(rawLines[1].part[1])
    /\ events[1].type = "tool_result"
    /\ HasType(rawLines[2], "tool_use") /\ IsSome(rawLines[2].part)
    /\ ~IsSome(rawLines[2].part[1].state)
    /\ events[2].type = "tool_start"
    /\ rawLines[3] = ToolUseLine(None)
    /\ events[3] = Null

\* C19: a content_block_delta line the Claude adapter parses while a
\* thinking block is open (after its content_block_start, before the next
\* content_block_stop) becomes a thinking event, and one parsed while a text
\* block is open becomes a text event.
StreamType(raw) ==
    IF HasType(raw, "stream_event") /\ IsSome(raw.event)
    THEN raw.event[1].type ELSE ""

\* the kind of the block open before line i, "" when none is
RECURSIVE OpenBlock(_)
OpenBlock(i) ==
    IF i <= 1 THEN ""
    ELSE IF StreamType(rawLines[i - 1]) = "content_block_start"
         THEN rawLines[i - 1].event[1].content_block[1].type
    ELSE IF StreamType(rawLines[i - 1]) = "content_block_stop" THEN ""
    ELSE OpenBlock(i - 1)

DeltaTaggedByOpenBlock ==
    backendName = "claude"
       => \A i \in 1..Len(rawLines) :
             (StreamType(rawLines[i]) = "content_block_delta"
              /\ OpenBlock(i) # "")
                => /\ events[i].ret = "event"
                   /\ events[i].type = OpenBlock(i)

\* C20: every recognized content block of an assistant line (thinking with
\* text, text with text, tool_use with a name) is surfaced by the Claude
\* adapter as a normalized event.
Surfaced(i) == {events[i]}

EveryBlockSurfaced ==
    backendName = "claude"
       => \A i \in 1..Len(rawLines) :
             (/\ HasType(rawLines[i], "assistant")
              /\ IsSome(rawLines[i].message)
              /\ IsSome(rawLines[i].message[1].content)
              /\ rawLines[i].message[1].content[1].json = "array")
                => LET items == rawLines[i].message[1].content[1].items
                   IN  \A k \in 1..Len(items) :
                          BlockEvent(items[k]) # Null
                             => BlockEvent(items[k]) \in Surfaced(i)

\* C21: the runner of every context of the manager holds the settings the
\* manager holds: after updateSettings(s) every context that exists, running
\* or idle, has a runner that was handed s, and a context that getContext or
\* loadContexts creates afterwards gets a runner constructed with s.
RunnersHoldCurrentSettings ==
    /\ oplog.last.op = "updateSettings"
          => \A k \in AllKeys :
                hasContext(contexts, k) => runnerSettings[k] = Some(settings)
    /\ oplog.last.op \in {"getContext", "loadContexts"}
          => \A k \in AllKeys :
                hasContext(contexts, k) => runnerSettings[k] = Some(settings)
    /\ \A k \in AllKeys : hasContext(contexts, k) <=> IsSome(runnerSettings[k])

\* updateSettings reached a running and an idle context that were created
\* with other settings
SettingsBroadcastSeen ==
    /\ oplog.last.op = "updateSettings"
    /\ oplog.prev.op = "isRunning"
    /\ settings = "settings2"
    /\ \E k1, k2 \in AllKeys :
          /\ Running(contexts, k1)
          /\ hasContext(contexts, k2) /\ ~Ctx(contexts, k2).isRunning
          /\ runnerSettings[k1] = Some("settings2")
          /\ runnerSettings[k2] = Some("settings2")

\* C22: the step of handleApprovePermission that starts the authorized run
\* hands the runner a request that has the approval text as userPrompt,
\* bypassPermissions true and the vault's configDir, and in every other field
\* the value of context.currentRequest; context.currentRequest is the same
\* after the step as before.
ApproveStarts ==
    /\ Len(runs') = Len(runs) + 1
    /\ runs'[Len(runs')].kind = "approve"

OverriddenFields == {"userPrompt", "bypassPermissions", "configDir"}

ApprovalCopiesRequest ==
    [][ApproveStarts
         => LET old == Ctx(contexts, currentNotePath).currentRequest[1]
                new == runs'[Len(runs')].request
            IN  /\ new.userPrompt = ApprovalPrompt
                /\ new.bypassPermissions = TRUE
                /\ new.configDir = ConfigDir
                /\ \A f \in (DOMAIN old) \ OverriddenFields : new[f] = old[f]
                /\ DOMAIN new = DOMAIN old
                /\ Ctx(contexts', currentNotePath).currentRequest
                      = Some(old)]_vars

\* an authorized run is in flight whose request differs from the stored
\* request of its context in the prompt and the bypass flag only
ApprovalRunSeen ==
    \E r \in InFlight(runs) :
        /\ runs[r].kind = "approve"
        /\ runs[r].request.bypassPermissions
        /\ runs[r].request.notePath = Some("a.md")
        /\ hasContext(contexts, runs[r].ctx)
        /\ IsSome(Ctx(contexts, runs[r].ctx).currentRequest)
        /\ Ctx(contexts, runs[r].ctx).currentRequest[1].userPrompt = "p"
        /\ ~Ctx(contexts, runs[r].ctx).currentRequest[1].bypassPermissions

\* C23: every custom variable with a non-empty value is, with exactly that
\* value, in the environment of the spawned child, whatever the shell
\* environment held for the variable.
CustomOverridesWin ==
    IsSome(spawner.env)
       => \A k \in EnvKeys :
             TruthyOpt(spawner.customEnvVars[k])
                => spawner.env[1][k] = spawner.customEnvVars[k]

\* C24: the environment of the spawned child has a UTF-8 locale in LANG,
\* LC_ALL and LC_CTYPE, whatever the shell environment held for them.
IsUtf8Locale(o) == o = Some("en_US.UTF-8")

LocaleIsUtf8 ==
    IsSome(spawner.env)
       => \A k \in {"LANG", "LC_ALL", "LC_CTYPE"} :
             IsUtf8Locale(spawner.env[1][k])

\* C25: a saveContext that fails is recovered where it is called: the error
\* does not propagate out of handleRunClaudeCode or handleApprovePermission,
\* and the context of the run is left idle and usable.
PersistenceErrorsStayLocal ==
    faults.uncaught = {}

\* the session directory the run r works in
RunSession(r) ==
    IF IsSome(runs[r].request.sessionDir) THEN runs[r].request.sessionDir[1]
    ELSE md5(runs[r].notePath)

\* C26: every listed session that has a run in flight, the context of the run
\* flagged running, is marked running in the list refreshSessionsList builds,
\* a standalone session as well as the session of a note.
RunningSessionsMarked ==
    \A r \in InFlight(runs) :
        (/\ Ctx(contexts, runs[r].ctx).isRunning
         /\ RunSession(r) \in listAllSessions(sessionFiles))
            => refreshSessionsList(sessionFiles, contexts)[RunSession(r)]

\* a step that is saveSessionId(dir of n, sessionId, backend) on a directory
\* that exists
SavesSessionId(n, sessionId, backend) ==
    /\ sessionFiles[md5(n)].exists
    /\ sessionFiles' = saveSessionId(sessionFiles, md5(n), sessionId, backend)

OtherBackendsKept(n, backend) ==
    \A other \in BackendType \ {backend} :
        SessionInfo(sessionFiles', n, other) = SessionInfo(sessionFiles, n, other)

SessionFollowsRename ==
    [][\A oldPath \in LinkPaths, newPath \in LinkPaths, backend \in BackendType :
          (/\ oldPath /= newPath
           /\ sessionFiles' = updateSessionPaths(sessionFiles, oldPath, newPath)
           /\ sessionFiles' /= sessionFiles)
              => SessionInfo(getSessionInfo(sessionFiles', newPath),
                             newPath, backend)
                     = SessionInfo(sessionFiles, oldPath, backend)]_vars

\* run r has ended with a failed response and its context is not running
EndedFailed(r) ==
    /\ r \in 1..Len(runs)
    /\ runs[r].status = "resolved"
    /\ timers[r].state /= "idle"
    /\ ~Ctx(contexts, timers[r].ctx).isRunning
    /\ IsSome(Ctx(contexts, timers[r].ctx).currentResponse)
    /\ ~Ctx(contexts, timers[r].ctx).currentResponse[1].success

RunningContextGetsLines ==
    \A r \in InFlight(runs) : runs[r].ctx = runs[r].notePath

\* the editor call that fits the request: replaceSelection when the request
\* was made for the selected text, setValue otherwise
EditFor(currentRequest) ==
    IF IsSome(currentRequest) /\ TruthyOpt(currentRequest[1].selectedText)
    THEN "replaceSelection" ELSE "setValue"

\* C31: when a run completes with modified content and auto-accept on, the
\* editor call is chosen from the request of the context of the run, whatever
\* context is on display.
AutoApplyUsesRunRequest ==
    [][\A r \in InFlight(runs) :
          (runs'[r].status = "resolved" /\ Notice("changesApplied") \in notices')
              => edits' = EditFor(Ctx(contexts, runs[r].ctx).currentRequest)]_vars

\* C32: a tool completion is matched, for its duration, only with a tool
\* start of the same context's run, whatever note is on display.
ToolMatchedWithinContext ==
    IsSome(tooling.matched)
        => tooling.matched[1].completed = tooling.matched[1].started

\* C33: the outputLines of a recorded history item never change: no step
\* alters what an item that exists before and after it shows.
HistoryItemLinesFixed ==
    [][\A k \in AllKeys :
          (hasContext(contexts, k) /\ hasContext(contexts', k))
              => \A i \in 1..Len(Ctx(contexts, k).history) :
                     i <= Len(Ctx(contexts', k).history)
                         => ItemLines(Ctx(contexts', k), i)
                                = ItemLines(Ctx(contexts, k), i)]_vars

\* C34: a permission request the user has denied is not offered again: while
\* no run has been started and none has ended since the denial, the approval
\* section is hidden whenever the view shows the context of the denied request.
DeniedRequestNotOffered ==
    \A d \in denied :
        (/\ d.runs = Len(runs)
         /\ d.inFlight = InFlight(runs)
         /\ d.key = currentNotePath) => ~permissionVisible

\* C35: when the handling of a finished run of a note completes, the record on
\* disk matches the durable fields of the context in memory: the history
\* with the entry of that run, the output lines and the pending preview.
FinishedRunIsPersisted ==
    [][\A r \in InFlight(runs) :
          (runs[r].fileIsNote /\ runs'[r] = ResolvedRun)
              => disk'[md5(runs[r].notePath)]
                     = Some(SessionData(Ctx(contexts', runs[r].notePath),
                                        runs[r].notePath))]_vars

\* how many times text occurs in within
Occurrences(text, within) ==
    Cardinality({i \in 1..(Len(within) - Len(text) + 1) :
                    SubSeq(within, i, i + Len(text) - 1) = text})

\* C36: a complete assistant message is only a fallback: when the lines hold
\* a streamed text delta and the assistant message with the same text, the
\* text appears exactly once in assistantText.
AssistantMessageIsFallback ==
    (/\ IsSome(parsed)
     /\ \E i \in 1..Len(outputLines) :
            outputLines[i] = DeltaEvent("text_delta", <<"a">>)
     /\ \E i \in 1..Len(outputLines) :
            outputLines[i] = AssistantEvent(<<TextBlock(<<"a">>)>>)
     /\ \A i \in 1..Len(outputLines) :
            outputLines[i] \in {DeltaEvent("text_delta", <<"a">>),
                                AssistantEvent(<<TextBlock(<<"a">>)>>)}
     /\ Len(outputLines) = 2)
        => Occurrences(<<"a">>, parsed[1].assistantText) = 1

IsObjectLine(line) == line.json = "object"

\* C37: parseOutput returns a result on every list of lines, and lines that
\* are not valid JSON or decode to a non-object contribute nothing: the
\* result is that of the list without them.
UndecodableLinesContributeNothing ==
    IsSome(parsed)
        => parsed[1] = parseOutput(SelectSeq(outputLines, IsObjectLine))

ParsedWithUndecodableLine ==
    /\ IsSome(parsed)
    /\ \E i, j, k \in 1..Len(outputLines) :
          /\ outputLines[i] = InvalidLine
          /\ outputLines[j] \in {NullLine, NumberLine}
          /\ outputLines[k].json = "object"
          /\ parsed[1].assistantText /= <<>>

\* C38: every context loadContexts reconstructs is idle: it is not running
\* and has neither a current request nor a current response, whatever state
\* the context was in when it was saved.
LoadedContextsAreIdle ==
    \A k \in AllKeys :
        hasContext(fresh, k)
            => /\ ~Ctx(fresh, k).isRunning
               /\ Ctx(fresh, k).currentRequest = None
               /\ Ctx(fresh, k).currentResponse = None

\* a context was saved with output while its run was in progress, and loaded
RunningContextReloaded ==
    \E k \in AllKeys :
        /\ oplog.prev = Op("saveContext", k)
        /\ oplog.last = Op("loadContexts", "")
        /\ hasContext(contexts, k)
        /\ Ctx(contexts, k).isRunning
        /\ IsSome(Ctx(contexts, k).currentRequest)
        /\ Ctx(contexts, k).outputLines /= <<>>
        /\ hasContext(fresh, k)

\* what clearHistory may change of a context
WithoutHistory(c) ==
    [c EXCEPT !.history = <<>>, !.outputLines = <<>>, !.agentSteps = <<>>]

\* C40: clearHistory(key) changes only history, outputLines and agentSteps of
\* the context of key: its other fields, its runner and every other context
\* stay as they are, and no context is created for a key that has none.
ClearHistoryFrame ==
    [][\A k \in AllKeys :
          (oplog'.n = oplog.n + 1 /\ oplog'.last = Op("clearHistory", k))
             => /\ \A j \in AllKeys \ {k} : contexts'[j] = contexts[j]
                /\ hasContext(contexts', k) = hasContext(contexts, k)
                /\ hasContext(contexts, k)
                     => WithoutHistory(Ctx(contexts', k))
                            = WithoutHistory(Ctx(contexts, k))
                /\ runnerSettings' = runnerSettings
                /\ disk' = disk]_vars

\* clearHistory was called on a running context that had a history and has a
\* current request, next to another context
HistoryOfRunningContextCleared ==
    \E k, j \in AllKeys :
        /\ j /= k
        /\ oplog.last = Op("clearHistory", k)
        /\ oplog.prev = Op("exchange", k)
        /\ hasContext(contexts, k)
        /\ Ctx(contexts, k).isRunning
        /\ IsSome(Ctx(contexts, k).currentRequest)
        /\ Ctx(contexts, k).history = <<>>
        /\ hasContext(contexts, j)

\* C39: no two entries of a session's linkedNotes list have the same path,
\* whatever addLinkedNote and updateSessionPaths calls were made.
LinkedPathsDistinct ==
    \A dir \in DOMAIN sessionFiles :
        IsSome(sessionFiles[dir].meta)
            => LET notes == sessionFiles[dir].meta[1].linkedNotes
               IN \A i, j \in 1..Len(notes) :
                      notes[i].path = notes[j].path => i = j

====
